---- MODULE Spec2Model ----
(***************************************************************************)
(* A model of aiortp: the RTP session orchestrator (session.py), the RTP   *)
(* sender (sender.py), the datagram transport (transport.py), the RFC 4733 *)
(* DTMF sender and receiver (dtmf.py), the receiver statistics (stats.py)  *)
(* and the L16 codec (codecs/pcm.py).  The packet codec (packet.py), the   *)
(* jitter buffer (jitterbuffer.py) and the 16-bit helpers (utils.py) are   *)
(* modelled from the specification and the repository's tests.             *)
(*                                                                         *)
(* Bytes are integers 0..255 and a datagram is a sequence of bytes.        *)
(***************************************************************************)
EXTENDS Integers, Sequences, FiniteSets, TLC

(***************************************************************************)
(* Bounds of the model.                                                    *)
(***************************************************************************)
\* concurrent callers of close()
NClosers == 2
\* expiries of the RTCP timer
MaxTimer == 2
\* datagrams on the RTP wire after which the application stops sending
MaxRtpLog == 5
\* send_digit calls on one DtmfSender
MaxDigitCalls == 1
\* telephone-event packets handed to one DtmfReceiver
MaxDtmfPackets == 4
\* media packets received by a session
MaxAudio == 7
\* datagrams of any kind received by a session
MaxRecv == 4
\* datagrams the applications send over the STUN-answering transports
MaxStunIn == 2
\* times one datagram and its answers cross the network
MaxHops == 3
\* NackGenerator.add calls after the first
MaxNack == 3
\* StreamStatistics.add calls and fraction_lost reads after the first add
MaxStats == 3

\* add calls on a jitter buffer, after the first.
MaxJitter == 3
\* allocate and release calls on a port allocator
MaxPortCalls == 4
\* how far around each byte boundary the counts given to the cumulative-lost
\* codec reach
LostWindow == 4

\* Assignments to on_dtmf
MaxAssign == 2

\* Datagrams sent before a call of update_remote
MaxSentAtUpdate == 1

\* RTCP packets in one compound datagram
MaxCompound == 2

(***************************************************************************)
(* Program constants.                                                      *)
(***************************************************************************)
DEFAULT_CLOCK_RATE == 8000
DEFAULT_DTMF_PT == 101
DEFAULT_VOLUME == 10
DEFAULT_DURATION_MS == 160
STEP_MS == 20
END_PACKETS == 3
RTP_HEADER_LENGTH == 12
JB_CAPACITY == 16
JB_PREFETCH == 4
L16_PT == 11
RTP_HISTORY_SIZE == 2000

None == "None"

(***************************************************************************)
(* utils.py: 16-bit modular arithmetic.                                    *)
(***************************************************************************)
uint16_add(a, b) == (a + b) % 65536

uint16_gt(a, b) ==
    LET half_mod == 32768
    IN  \/ (a < b /\ (b - a) > half_mod)
        \/ (a > b /\ (a - b) < half_mod)

(***************************************************************************)
(* Big-endian packing, as struct.pack("!H") and struct.pack("!I").         *)
(***************************************************************************)
U16(n) == << n \div 256, n % 256 >>

U32(n) == << n \div 16777216, (n \div 65536) % 256, (n \div 256) % 256, n % 256 >>

BE16(b, i) == b[i] * 256 + b[i + 1]

BE32(b, i) == ((b[i] * 256 + b[i + 1]) * 256 + b[i + 2]) * 256 + b[i + 3]

Slice(s, from, to) == [i \in 1..(to - from + 1) |-> s[from + i - 1]]

(***************************************************************************)
(* packet.py, RtpPacket: the 12-byte header, CSRCs, an optional extension  *)
(* block that is skipped when no extensions map is given, the payload and  *)
(* the padding.                                                            *)
(***************************************************************************)
RtpPacket(payload_type, marker, sequence_number, timestamp, ssrc, payload) ==
    [ payload_type |-> payload_type, marker |-> marker,
      sequence_number |-> sequence_number, timestamp |-> timestamp,
      ssrc |-> ssrc, csrc |-> << >>, padding_size |-> 0, payload |-> payload ]

RECURSIVE Concat32(_)
Concat32(words) ==
    IF words = << >> THEN << >> ELSE U32(Head(words)) \o Concat32(Tail(words))

RtpSerialize(p) ==
    << 128 + (IF p.padding_size > 0 THEN 32 ELSE 0) + Len(p.csrc),
       p.marker * 128 + p.payload_type >>
    \o U16(p.sequence_number) \o U32(p.timestamp) \o U32(p.ssrc)
    \o Concat32(p.csrc) \o p.payload
    \o [i \in 1..p.padding_size |-> IF i = p.padding_size THEN p.padding_size ELSE 0]

\* Either [ok |-> FALSE, error |-> ...] (parse raises ValueError) or the packet.
RtpParse(data) ==
    IF Len(data) < RTP_HEADER_LENGTH
    THEN [ok |-> FALSE, error |-> "TruncatedPacket"]
    ELSE
    LET v_p_x_cc == data[1]
        version  == v_p_x_cc \div 64
        p        == (v_p_x_cc \div 32) % 2
        x        == (v_p_x_cc \div 16) % 2
        cc       == v_p_x_cc % 16
        pos1     == RTP_HEADER_LENGTH + 4 * cc
    IN  IF version # 2 THEN [ok |-> FALSE, error |-> "BadVersion"]
        ELSE IF Len(data) < pos1 THEN [ok |-> FALSE, error |-> "TruncatedCsrc"]
        ELSE
        LET ext_hdr_ok == (x = 0) \/ (Len(data) >= pos1 + 4)
            ext_len    == IF x = 1 /\ ext_hdr_ok THEN 4 * BE16(data, pos1 + 3) ELSE 0
            pos2       == IF x = 1 THEN pos1 + 4 + ext_len ELSE pos1
        IN  IF ~ext_hdr_ok \/ Len(data) < pos2
            THEN [ok |-> FALSE, error |-> "TruncatedExtension"]
            ELSE
            LET pad == IF p = 1 /\ Len(data) > 0 THEN data[Len(data)] ELSE 0
            IN  IF p = 1 /\ (pad < 1 \/ pad > Len(data) - pos2)
                THEN [ok |-> FALSE, error |-> "InvalidPadding"]
                ELSE [ ok |-> TRUE,
                       payload_type |-> data[2] % 128,
                       marker |-> data[2] \div 128,
                       sequence_number |-> BE16(data, 3),
                       timestamp |-> BE32(data, 5),
                       ssrc |-> BE32(data, 9),
                       csrc |-> [i \in 1..cc |-> BE32(data, RTP_HEADER_LENGTH + 4 * i - 3)],
                       padding_size |-> pad,
                       payload |-> Slice(data, pos2 + 1, Len(data) - pad) ]

(***************************************************************************)
(* dtmf.py: the telephone-event payload.                                   *)
(***************************************************************************)
DTMF_EVENTS ==
    [ d \in {"0", "1", "2", "3", "4", "5", "6", "7", "8", "9", "*", "#", "A", "B", "C", "D"} |->
        CASE d = "0" -> 0  [] d = "1" -> 1  [] d = "2" -> 2  [] d = "3" -> 3
          [] d = "4" -> 4  [] d = "5" -> 5  [] d = "6" -> 6  [] d = "7" -> 7
          [] d = "8" -> 8  [] d = "9" -> 9  [] d = "*" -> 10 [] d = "#" -> 11
          [] d = "A" -> 12 [] d = "B" -> 13 [] d = "C" -> 14 [] d = "D" -> 15 ]

EVENT_TO_DIGIT(event) ==
    IF \E d \in DOMAIN DTMF_EVENTS : DTMF_EVENTS[d] = event
    THEN CHOOSE d \in DOMAIN DTMF_EVENTS : DTMF_EVENTS[d] = event
    ELSE "?"

\* str.upper() on a string of at most one character: a lower-case letter
\* becomes its upper-case letter, every other string is returned as it is.
upper(digit) ==
    LET ascii_lowercase ==
            << "a", "b", "c", "d", "e", "f", "g", "h", "i", "j", "k", "l", "m",
               "n", "o", "p", "q", "r", "s", "t", "u", "v", "w", "x", "y", "z" >>
        ascii_uppercase ==
            << "A", "B", "C", "D", "E", "F", "G", "H", "I", "J", "K", "L", "M",
               "N", "O", "P", "Q", "R", "S", "T", "U", "V", "W", "X", "Y", "Z" >>
    IN  IF \E i \in 1..26 : ascii_lowercase[i] = digit
        THEN ascii_uppercase[CHOOSE i \in 1..26 : ascii_lowercase[i] = digit]
        ELSE digit

DtmfEvent(event, end, volume, duration) ==
    [event |-> event, end |-> end, volume |-> volume, duration |-> duration]

\* struct.pack("!BBH") raises struct.error outside these ranges
DtmfEvent_packable(ev) == ev.event \in 0..255 /\ ev.duration \in 0..65535

DtmfEvent_serialize(ev) ==
    << ev.event, (IF ev.end THEN 128 ELSE 0) + (ev.volume % 64) >> \o U16(ev.duration)

DtmfEvent_parse(data) ==
    IF Len(data) < 4
    THEN [ok |-> FALSE]
    ELSE [ ok |-> TRUE,
           event |-> data[1],
           end |-> (data[2] \div 128) % 2 = 1,
           volume |-> data[2] % 64,
           duration |-> BE16(data, 3) ]

DtmfEvent_digit(ev) == EVENT_TO_DIGIT(ev.event)

(***************************************************************************)
(* transport.py, RtpTransport, on the asyncio datagram transport that      *)
(* connection_made gave it (create() has returned, so _transport is set):  *)
(*   open         close() has not been called: the socket is read          *)
(*   lost         the event loop has run connection_lost, which follows    *)
(*                close() in the loop's next iteration: the socket is gone *)
(*   close_calls  the calls of close(), closed_by the caller of the first  *)
(*   sent         the datagrams handed to the socket's sendto              *)
(*   sent_to      the address each of them was handed over with            *)
(* An address is << host, port >>; << >> is None.                          *)
(***************************************************************************)
RtpTransport_new ==
    [open |-> TRUE, lost |-> FALSE, close_calls |-> 0, closed_by |-> 0, sent |-> << >>,
     sent_to |-> << >>]

\* The exception send(data, addr) raises: sendto on a transport whose socket
\* is gone raises AttributeError.  _remote_addr of an RtpTransport is never
\* assigned, so the target is addr, and without one nothing is attempted.
RtpTransport_send_raises(t, addr) ==
    IF addr # << >> /\ t.lost THEN "AttributeError" ELSE None

\* send(data, addr): the datagram goes to sendto when there is a target,
\* also between close() and connection_lost, when the socket still sends.
RtpTransport_send(t, data, addr) ==
    IF addr = << >> \/ t.lost THEN t
    ELSE [t EXCEPT !.sent = Append(@, data), !.sent_to = Append(@, addr)]

RtpTransport_close(t, caller) ==
    [t EXCEPT !.open = FALSE, !.close_calls = @ + 1,
              !.closed_by = IF t.open THEN caller ELSE @]

\* The loop's call of connection_lost for a transport that was closed.
RtpTransport_connection_lost(t) == [t EXCEPT !.lost = ~t.open]

(***************************************************************************)
(* sender.py, RtpSender.                                                   *)
(***************************************************************************)
\* Mutant: the sender does not take the ssrc it is given.
RtpSender_new_own_ssrc(payload_type, ssrc, sequence_number) ==
    [ payload_type |-> payload_type, ssrc |-> ssrc + 1,
      sequence_number |-> sequence_number, packets_sent |-> 0, octets_sent |-> 0 ]

RtpSender_new(payload_type, ssrc, sequence_number) ==
    [ payload_type |-> payload_type, ssrc |-> ssrc,
      sequence_number |-> sequence_number, packets_sent |-> 0, octets_sent |-> 0 ]

\* Mutant: the sequence number is incremented without the 16-bit wrap.
RtpSender_advance_unwrapped(snd, octets) ==
    [snd EXCEPT !.sequence_number = @ + 1,
                !.packets_sent = @ + 1,
                !.octets_sent = @ + octets]

\* The sender after one packet with `octets` payload bytes has been sent.
RtpSender_advance(snd, octets) ==
    [snd EXCEPT !.sequence_number = uint16_add(@, 1),
                !.packets_sent = @ + 1,
                !.octets_sent = @ + octets]

send_frame(snd, payload, timestamp, marker) ==
    [ data |-> RtpSerialize(RtpPacket(snd.payload_type, marker, snd.sequence_number,
                                      timestamp, snd.ssrc, payload)),
      sender |-> RtpSender_advance(snd, Len(payload)) ]

(***************************************************************************)
(* dtmf.py, DtmfSender.send_digit: the datagrams it hands to the           *)
(* transport, in order, the sender afterwards, and whether it raised.      *)
(***************************************************************************)
DtmfPacket(snd, dtmf_payload_type, ev, marker, timestamp) ==
    RtpSerialize(RtpPacket(dtmf_payload_type, marker, snd.sequence_number,
                           timestamp, snd.ssrc, DtmfEvent_serialize(ev)))

\* The progress loop; st holds the RtpSender, the datagrams sent so far and
\* current_duration.
RECURSIVE send_digit_progress(_, _)
send_digit_progress(st, ctx) ==
    IF st.current_duration < ctx.duration_samples
    THEN LET ev == DtmfEvent(ctx.event_code, FALSE, ctx.volume, st.current_duration)
         IN  IF ~DtmfEvent_packable(ev)
             THEN [sender |-> st.sender, packets |-> st.packets, raised |-> "struct.error"]
             ELSE send_digit_progress(
                      [ sender |-> RtpSender_advance(st.sender, Len(DtmfEvent_serialize(ev))),
                        packets |-> Append(st.packets,
                                           DtmfPacket(st.sender, ctx.dtmf_payload_type, ev, 0,
                                                      ctx.timestamp)),
                        current_duration |-> st.current_duration + ctx.step_samples ],
                      ctx)
    ELSE [sender |-> st.sender, packets |-> st.packets, raised |-> None]

\* Mutant: each end packet carries the RTP timestamp of its own moment.
RECURSIVE send_digit_end_restamped(_, _, _)
send_digit_end_restamped(st, i, ctx) ==
    IF i < END_PACKETS
    THEN LET ev == DtmfEvent(ctx.event_code, TRUE, ctx.volume, ctx.duration_samples)
         IN  IF ~DtmfEvent_packable(ev)
             THEN [sender |-> st.sender, packets |-> st.packets, raised |-> "struct.error"]
             ELSE send_digit_end_restamped(
                      [ sender |-> RtpSender_advance(st.sender, Len(DtmfEvent_serialize(ev))),
                        packets |-> Append(st.packets,
                                           DtmfPacket(st.sender, ctx.dtmf_payload_type, ev,
                                                      IF i = 0 THEN 1 ELSE 0,
                                                      ctx.timestamp + i * ctx.step_samples)) ],
                      i + 1, ctx)
    ELSE [sender |-> st.sender, packets |-> st.packets, raised |-> None]

\* The loop over the end packets, i = 0, 1, 2.
RECURSIVE send_digit_end(_, _, _)
send_digit_end(st, i, ctx) ==
    IF i < END_PACKETS
    THEN LET ev == DtmfEvent(ctx.event_code, TRUE, ctx.volume, ctx.duration_samples)
         IN  IF ~DtmfEvent_packable(ev)
             THEN [sender |-> st.sender, packets |-> st.packets, raised |-> "struct.error"]
             ELSE send_digit_end(
                      [ sender |-> RtpSender_advance(st.sender, Len(DtmfEvent_serialize(ev))),
                        packets |-> Append(st.packets,
                                           DtmfPacket(st.sender, ctx.dtmf_payload_type, ev,
                                                      IF i = 0 THEN 1 ELSE 0, ctx.timestamp)) ],
                      i + 1, ctx)
    ELSE [sender |-> st.sender, packets |-> st.packets, raised |-> None]

\* Mutant: send_digit that sends an unknown character as event 0 instead of
\* raising.
send_digit_unvalidated(snd, dtmf, digit, duration_ms, volume, timestamp) ==
    LET ctx == [ dtmf_payload_type |-> dtmf.dtmf_payload_type,
                 event_code |-> IF upper(digit) \in DOMAIN DTMF_EVENTS
                                THEN DTMF_EVENTS[upper(digit)] ELSE 0,
                 volume |-> volume,
                 timestamp |-> timestamp,
                 duration_samples |-> (duration_ms * dtmf.clock_rate) \div 1000,
                 step_samples |-> (STEP_MS * dtmf.clock_rate) \div 1000 ]
        progress == send_digit_progress(
                        [ sender |-> snd, packets |-> << >>,
                          current_duration |-> ctx.step_samples ], ctx)
    IN  IF progress.raised # None
        THEN progress
        ELSE send_digit_end([sender |-> progress.sender, packets |-> progress.packets], 0, ctx)

\* dtmf is the DtmfSender: [dtmf_payload_type, clock_rate]; snd is its RtpSender.
send_digit(snd, dtmf, digit, duration_ms, volume, timestamp) ==
    IF upper(digit) \notin DOMAIN DTMF_EVENTS
    THEN [sender |-> snd, packets |-> << >>, raised |-> "ValueError"]
    ELSE
    LET ctx == [ dtmf_payload_type |-> dtmf.dtmf_payload_type,
                 event_code |-> DTMF_EVENTS[upper(digit)],
                 volume |-> volume,
                 timestamp |-> timestamp,
                 duration_samples |-> (duration_ms * dtmf.clock_rate) \div 1000,
                 step_samples |-> (STEP_MS * dtmf.clock_rate) \div 1000 ]
        progress == send_digit_progress(
                        [ sender |-> snd, packets |-> << >>,
                          current_duration |-> ctx.step_samples ], ctx)
    IN  IF progress.raised # None
        THEN progress
        ELSE send_digit_end([sender |-> progress.sender, packets |-> progress.packets], 0, ctx)

(***************************************************************************)
(* packet.py, RTCP: a compound datagram is a run of sub-packets, each a    *)
(* 4-byte header (version, padding bit, count, packet type, length in      *)
(* 32-bit words minus one) and a body.  A 64-bit NTP timestamp is kept as  *)
(* its two 32-bit halves.                                                  *)
(***************************************************************************)
RTCP_HEADER_LENGTH == 4
RTCP_SR == 200
RTCP_RR == 201
RTCP_SDES == 202
RTCP_BYE == 203
RTCP_RTPFB == 205
RTCP_PSFB == 206
SENDER_INFO_LENGTH == 20
RECEIVER_REPORT_LENGTH == 24
SDES_CNAME == 1

pack_rtcp_packet(packet_type, count, payload) ==
    << 128 + count, packet_type >> \o U16(Len(payload) \div 4) \o payload

\* packet.clamp_packets_lost
clamp_packets_lost(count) ==
    IF count < -8388608 THEN -8388608 ELSE IF count > 8388607 THEN 8388607 ELSE count

\* The low three bytes of the two's complement of n, most significant first.
U24(n) == << (n \div 65536) % 256, (n \div 256) % 256, n % 256 >>

\* Mutant: pack_packets_lost that truncates its argument to 24 bits instead
\* of clamping it.
pack_packets_lost_unclamped(count) == U24(count)

\* packet.pack_packets_lost: the count is clamped, then written as a 24-bit
\* two's complement number.
pack_packets_lost(count) == U24(clamp_packets_lost(count))

\* packet.unpack_packets_lost: three bytes read as a 24-bit number, the top
\* bit of the first byte extended as the sign.
unpack_packets_lost(d) ==
    LET value == (d[1] * 256 + d[2]) * 256 + d[3]
    IN  IF d[1] \div 128 = 1 THEN value - 16777216 ELSE value

RtcpSenderInfo(ntp_timestamp, rtp_timestamp, packet_count, octet_count) ==
    [ ntp_timestamp |-> ntp_timestamp, rtp_timestamp |-> rtp_timestamp,
      packet_count |-> packet_count, octet_count |-> octet_count ]

RtcpSenderInfo_bytes(info) ==
    U32(info.ntp_timestamp[1]) \o U32(info.ntp_timestamp[2]) \o U32(info.rtp_timestamp)
    \o U32(info.packet_count) \o U32(info.octet_count)

\* A report block.
RtcpReceiverInfo(ssrc, fraction_lost, packets_lost, highest_sequence, jitter, lsr, dlsr) ==
    [ ssrc |-> ssrc, fraction_lost |-> fraction_lost, packets_lost |-> packets_lost,
      highest_sequence |-> highest_sequence, jitter |-> jitter, lsr |-> lsr, dlsr |-> dlsr ]

RtcpReceiverInfo_bytes(r) ==
    U32(r.ssrc) \o << r.fraction_lost >> \o pack_packets_lost(r.packets_lost)
    \o U32(r.highest_sequence) \o U32(r.jitter) \o U32(r.lsr) \o U32(r.dlsr)

RtcpReceiverInfo_parse(data) ==
    RtcpReceiverInfo(BE32(data, 1), data[5], unpack_packets_lost(Slice(data, 6, 8)),
                     BE32(data, 9), BE32(data, 13), BE32(data, 17), BE32(data, 21))

RECURSIVE Reports_bytes(_)
Reports_bytes(reports) ==
    IF reports = << >> THEN << >>
    ELSE RtcpReceiverInfo_bytes(Head(reports)) \o Reports_bytes(Tail(reports))

\* The session's own sender reports carry no report blocks.
RtcpSrPacket(ssrc, sender_info) ==
    [type |-> "SR", ssrc |-> ssrc, sender_info |-> sender_info, reports |-> << >>]

RtcpSrPacket_bytes(sr) ==
    pack_rtcp_packet(RTCP_SR, Len(sr.reports),
                     U32(sr.ssrc) \o RtcpSenderInfo_bytes(sr.sender_info)
                     \o Reports_bytes(sr.reports))

RtcpRrPacket(ssrc, reports) == [type |-> "RR", ssrc |-> ssrc, reports |-> reports]

RtcpRrPacket_bytes(rr) ==
    pack_rtcp_packet(RTCP_RR, Len(rr.reports), U32(rr.ssrc) \o Reports_bytes(rr.reports))

RtcpSourceInfo(ssrc, items) == [ssrc |-> ssrc, items |-> items]

RtcpSdesPacket(chunks) == [type |-> "SDES", chunks |-> chunks]

RECURSIVE SdesItems_bytes(_)
SdesItems_bytes(items) ==
    IF items = << >> THEN << >>
    ELSE << Head(items)[1], Len(Head(items)[2]) >> \o Head(items)[2] \o SdesItems_bytes(Tail(items))

PadTo4(b) == b \o [i \in 1..((4 - (Len(b) % 4)) % 4) |-> 0]

RECURSIVE SdesChunks_bytes(_, _)
SdesChunks_bytes(chunks, payload) ==
    IF chunks = << >> THEN payload
    ELSE SdesChunks_bytes(Tail(chunks),
             PadTo4(payload \o U32(Head(chunks).ssrc) \o SdesItems_bytes(Head(chunks).items) \o << 0, 0 >>))

RtcpSdesPacket_bytes(sdes) ==
    pack_rtcp_packet(RTCP_SDES, Len(sdes.chunks), SdesChunks_bytes(sdes.chunks, << >>))

RtcpByePacket(sources) == [type |-> "BYE", sources |-> sources]

RtcpByePacket_bytes(bye) ==
    pack_rtcp_packet(RTCP_BYE, Len(bye.sources), Concat32(bye.sources))

\* A generic NACK: lost is the list of lost sequence numbers, ascending.
RtcpRtpfbPacket(fmt, ssrc, media_ssrc, lost) ==
    [type |-> "RTPFB", fmt |-> fmt, ssrc |-> ssrc, media_ssrc |-> media_ssrc, lost |-> lost]

\* blp |= 1 << d
SetBit(blp, d) == IF (blp \div (2 ^ d)) % 2 = 1 THEN blp ELSE blp + 2 ^ d

\* The (PID, BLP) pairs: a sequence number within 16 after the current PID
\* is a bit of its BLP, any other starts a new pair.
RECURSIVE NackPairs_bytes(_, _, _)
NackPairs_bytes(lost, pid, blp) ==
    IF lost = << >> THEN U16(pid) \o U16(blp)
    ELSE LET d == Head(lost) - pid - 1
         IN  IF d < 16
             THEN NackPairs_bytes(Tail(lost), pid, SetBit(blp, d))
             ELSE U16(pid) \o U16(blp) \o NackPairs_bytes(Tail(lost), Head(lost), 0)

RtcpRtpfbPacket_bytes(fb) ==
    pack_rtcp_packet(RTCP_RTPFB, fb.fmt,
                     U32(fb.ssrc) \o U32(fb.media_ssrc)
                     \o (IF fb.lost = << >> THEN << >>
                         ELSE NackPairs_bytes(Tail(fb.lost), Head(fb.lost), 0)))

RtcpPsfbPacket(fmt, ssrc, media_ssrc, fci) ==
    [type |-> "PSFB", fmt |-> fmt, ssrc |-> ssrc, media_ssrc |-> media_ssrc, fci |-> fci]

RtcpPsfbPacket_bytes(fb) ==
    pack_rtcp_packet(RTCP_PSFB, fb.fmt, U32(fb.ssrc) \o U32(fb.media_ssrc) \o fb.fci)

\* bytes(packet), by variant.
RtcpPacket_bytes(q) ==
    CASE q.type = "SR"    -> RtcpSrPacket_bytes(q)
      [] q.type = "RR"    -> RtcpRrPacket_bytes(q)
      [] q.type = "SDES"  -> RtcpSdesPacket_bytes(q)
      [] q.type = "BYE"   -> RtcpByePacket_bytes(q)
      [] q.type = "RTPFB" -> RtcpRtpfbPacket_bytes(q)
      [] q.type = "PSFB"  -> RtcpPsfbPacket_bytes(q)

Fail(error) == [ok |-> FALSE, error |-> error]

RtcpSr_parse(data, count) ==
    IF Len(data) # 4 + SENDER_INFO_LENGTH + RECEIVER_REPORT_LENGTH * count
    THEN Fail("InvalidSrLength")
    ELSE [ ok |-> TRUE, type |-> "SR", ssrc |-> BE32(data, 1),
           sender_info |-> RtcpSenderInfo(<< BE32(data, 5), BE32(data, 9) >>, BE32(data, 13),
                                          BE32(data, 17), BE32(data, 21)),
           reports |-> [i \in 1..count |->
                          RtcpReceiverInfo_parse(
                              Slice(data, 25 + RECEIVER_REPORT_LENGTH * (i - 1),
                                    24 + RECEIVER_REPORT_LENGTH * i))] ]

RtcpRr_parse(data, count) ==
    IF Len(data) # 4 + RECEIVER_REPORT_LENGTH * count
    THEN Fail("InvalidRrLength")
    ELSE [ ok |-> TRUE, type |-> "RR", ssrc |-> BE32(data, 1),
           reports |-> [i \in 1..count |->
                          RtcpReceiverInfo_parse(
                              Slice(data, 5 + RECEIVER_REPORT_LENGTH * (i - 1),
                                    4 + RECEIVER_REPORT_LENGTH * i))] ]

\* The next 32-bit boundary at or after 0-based offset pos.
AlignTo4(pos) == pos + ((4 - (pos % 4)) % 4)

\* The items of one chunk, read from 0-based offset pos, up to the END item
\* and the zero padding that fills the chunk to a 32-bit boundary.
RECURSIVE SdesItems_parse(_, _, _)
SdesItems_parse(data, pos, items) ==
    IF pos < Len(data) - 1
    THEN LET d_type   == data[pos + 1]
             d_length == data[pos + 2]
         IN  IF Len(data) < pos + 2 + d_length
             THEN Fail("TruncatedItem")
             ELSE IF d_type = 0
                  THEN [ok |-> TRUE, pos |-> AlignTo4(pos + 2 + d_length), items |-> items]
                  ELSE SdesItems_parse(data, pos + 2 + d_length,
                           Append(items, << d_type, Slice(data, pos + 3, pos + 2 + d_length) >>))
    ELSE [ok |-> TRUE, pos |-> pos, items |-> items]

RECURSIVE SdesChunks_parse(_, _, _, _)
SdesChunks_parse(data, pos, count, chunks) ==
    IF count = 0 THEN [ok |-> TRUE, type |-> "SDES", chunks |-> chunks]
    ELSE IF Len(data) < pos + 4 THEN Fail("TruncatedSource")
    ELSE LET it == SdesItems_parse(data, pos + 4, << >>)
         IN  IF ~it.ok THEN it
             ELSE SdesChunks_parse(data, it.pos, count - 1,
                      Append(chunks, RtcpSourceInfo(BE32(data, pos + 1), it.items)))

RtcpBye_parse(data, count) ==
    IF Len(data) < 4 * count
    THEN Fail("InvalidByeLength")
    ELSE [ok |-> TRUE, type |-> "BYE", sources |-> [i \in 1..count |-> BE32(data, 4 * i - 3)]]

\* The sequence numbers of one (PID, BLP) pair: the PID, then PID + d + 1
\* for every bit d set in the BLP.
NackPair_lost(pid, blp) ==
    << pid >> \o SelectSeq([d \in 1..16 |-> pid + d], LAMBDA n : (blp \div (2 ^ (n - pid - 1))) % 2 = 1)

\* The pairs from 0-based offset pos to the end of the payload.
RECURSIVE NackPairs_parse(_, _)
NackPairs_parse(data, pos) ==
    IF pos >= Len(data) THEN << >>
    ELSE NackPair_lost(BE16(data, pos + 1), BE16(data, pos + 3)) \o NackPairs_parse(data, pos + 4)

\* Mutant: RtcpRtpfbPacket.parse that reads the PIDs and ignores the bit masks.
RtcpRtpfb_parse_pids_only(data, fmt) ==
    IF Len(data) < 8
    THEN Fail("InvalidRtpfbLength")
    ELSE [ ok |-> TRUE, type |-> "RTPFB", fmt |-> fmt, ssrc |-> BE32(data, 1),
           media_ssrc |-> BE32(data, 5),
           lost |-> [i \in 1..((Len(data) - 8) \div 4) |-> BE16(data, 5 + 4 * i)] ]

RtcpRtpfb_parse(data, fmt) ==
    IF Len(data) < 8
    THEN Fail("InvalidRtpfbLength")
    ELSE [ ok |-> TRUE, type |-> "RTPFB", fmt |-> fmt, ssrc |-> BE32(data, 1),
           media_ssrc |-> BE32(data, 5), lost |-> NackPairs_parse(data, 8) ]

RtcpPsfb_parse(data, fmt) ==
    IF Len(data) < 8
    THEN Fail("InvalidPsfbLength")
    ELSE [ ok |-> TRUE, type |-> "PSFB", fmt |-> fmt, ssrc |-> BE32(data, 1),
           media_ssrc |-> BE32(data, 5), fci |-> Slice(data, 9, Len(data)) ]

\* RtcpPacket.parse, from 0-based offset pos: the packets, or the failure
\* that makes parse raise ValueError.  Unknown packet types are skipped.
RECURSIVE RtcpParseFrom(_, _, _)
RtcpParseFrom(data, pos, packets) ==
    IF pos >= Len(data) THEN [ok |-> TRUE, packets |-> packets]
    ELSE IF Len(data) < pos + RTCP_HEADER_LENGTH THEN Fail("TruncatedPacket")
    ELSE
    LET v_p_count   == data[pos + 1]
        version     == v_p_count \div 64
        padding     == (v_p_count \div 32) % 2
        count       == v_p_count % 32
        packet_type == data[pos + 2]
        end         == pos + 4 + 4 * BE16(data, pos + 3)
    IN  IF version # 2 THEN Fail("BadVersion")
        ELSE IF Len(data) < end THEN Fail("TruncatedPacket")
        ELSE
        LET body == Slice(data, pos + 5, end)
            pad  == IF padding = 1 /\ Len(body) > 0 THEN body[Len(body)] ELSE 0
        IN  IF padding = 1 /\ (pad = 0 \/ pad > Len(body)) THEN Fail("InvalidPadding")
            ELSE
            LET payload == Slice(body, 1, Len(body) - pad)
                one == CASE packet_type = RTCP_SR    -> RtcpSr_parse(payload, count)
                         [] packet_type = RTCP_RR    -> RtcpRr_parse(payload, count)
                         [] packet_type = RTCP_SDES  -> SdesChunks_parse(payload, 0, count, << >>)
                         [] packet_type = RTCP_BYE   -> RtcpBye_parse(payload, count)
                         [] packet_type = RTCP_RTPFB -> RtcpRtpfb_parse(payload, count)
                         [] packet_type = RTCP_PSFB  -> RtcpPsfb_parse(payload, count)
                         [] OTHER -> [ok |-> TRUE, type |-> "unknown"]
            IN  IF ~one.ok THEN one
                ELSE RtcpParseFrom(data, end,
                         IF one.type = "unknown" THEN packets ELSE Append(packets, one))

RtcpParse(data) == RtcpParseFrom(data, 0, << >>)

(***************************************************************************)
(* codecs/g711.py, PcmuCodec.encode: s16le PCM to mu-law, one byte per     *)
(* sample, through the table _build_ulaw_encode_table computes.            *)
(***************************************************************************)
ULAW_BIAS == 132

ULAW_CLIP == 32635

\* _ULAW_ENCODE_TABLE[i], i the sample as an unsigned 16-bit number.
_ULAW_ENCODE_TABLE(i) ==
    LET signed    == IF i < 32768 THEN i ELSE i - 65536
        sign      == IF signed < 0 THEN 128 ELSE 0
        magnitude == IF signed < 0 THEN -signed ELSE signed
        sample    == (IF magnitude > ULAW_CLIP THEN ULAW_CLIP ELSE magnitude) + ULAW_BIAS
        \* the highest e in 1..7 whose bit 2^(7 + e) is set in sample, else 0
        exponent  == IF \E e \in 1..7 : (sample \div 2^(7 + e)) % 2 = 1
                     THEN CHOOSE e \in 1..7 :
                              /\ (sample \div 2^(7 + e)) % 2 = 1
                              /\ \A f \in (e + 1)..7 : (sample \div 2^(7 + f)) % 2 = 0
                     ELSE 0
        mantissa  == (sample \div 2^(exponent + 3)) % 16
    IN  255 - (sign + 16 * exponent + mantissa)

\* encode(pcm): struct.unpack_from("<h") raises struct.error at a last
\* sample of one byte.
PcmuCodec_encode(pcm) ==
    IF Len(pcm) % 2 = 1
    THEN [ok |-> FALSE, error |-> "struct.error"]
    ELSE [ ok |-> TRUE,
           data |-> [k \in 1..(Len(pcm) \div 2) |->
                        _ULAW_ENCODE_TABLE(pcm[2 * k - 1] + 256 * pcm[2 * k])] ]

(***************************************************************************)
(* session.py, RTPSession: a session as create() returns it.               *)
(*                                                                         *)
(*   session        the arguments of create(): ssrc, payload types, clock  *)
(*                  rate, cname (as bytes)                                 *)
(*   closed         _closed                                                *)
(*   rtcp_task      the task running _run_rtcp: pc is "pending" (created,  *)
(*                  not yet run), "sleeping" (suspended in asyncio.sleep)  *)
(*                  or "done"; sleep_done says the sleep's future has      *)
(*                  completed and the task is scheduled to resume;         *)
(*                  must_cancel says cancel() was called and the task gets *)
(*                  CancelledError when it next runs                       *)
(*   close_pc       where each caller of close() is: "idle", "await_task"  *)
(*                  (suspended in await self._rtcp_task), "yield"          *)
(*                  (suspended in asyncio.sleep(0)) or "done"              *)
(*   first_closer   the caller that set _closed (0: none yet)              *)
(*   rtp_transport, rtcp_transport   the two RtpTransport objects          *)
(*   sender         the RtpSender                                          *)
(*   timer_fires    how often the RTCP timer has expired                   *)
(*   result         the operation last run: its name, the exception it     *)
(*                  raised (None: it returned normally), and the number of *)
(*                  datagrams it handed to a transport                     *)
(***************************************************************************)
VARIABLES session, closed, rtcp_task, close_pc, first_closer, rtp_transport, rtcp_transport,
          sender, timer_fires, result

session_vars == << session, closed, rtcp_task, close_pc, first_closer, rtp_transport,
                   rtcp_transport, sender, timer_fires, result >>

Closers == 1..NClosers

\* "aiortp".encode("utf-8")
DEFAULT_CNAME == << 97, 105, 111, 114, 116, 112 >>

\* Values drawn for create()'s ssrc (random32) and the sender's first
\* sequence number (random16), the second next to the 16-bit wrap.
SsrcChoices == {4660}
InitialSequenceNumbers == {7, 65535}

\* clock.current_ntp_time() at the n-th expiry of the timer, as two 32-bit
\* halves: the clock moves on between expiries.
NtpTimes == {<< 1000 + 5 * n, 32768 * n >> : n \in {timer_fires}}

\* create()'s remote_addr, and the addresses update_remote is called with.
RemoteAddrs == {<< "127.0.0.1", 5004 >>, << "127.0.0.1", 0 >>}

UpdateAddrs == {<< "127.0.0.1", 0 >>}

\* create(): _remote_rtcp_addr is the port after the remote RTP port, or the
\* remote address itself when its port is 0.
create_remote_rtcp_addr(remote_addr) ==
    IF remote_addr[2] = 0 THEN remote_addr
    ELSE << remote_addr[1], remote_addr[2] + 1 >>

\* What the application passes to send_audio, send_audio_pcm and send_dtmf:
\* a PCMU payload; s16le PCM that encodes to that payload, and PCM that
\* ends in half a sample.
AudioPayloads == {<< 255, 253 >>}
PcmInputs == {<< 0, 0, 16, 0 >>, << 0 >>}
AudioTimestamps == {160}
Digits == {"d", "x"}
DtmfDurations == {0, 40}

Returned(op, sent) == [op |-> op, raised |-> None, sent |-> sent]

Raised(op, error, sent) == [op |-> op, raised |-> error, sent |-> sent]

SessionInit ==
    /\ session \in { [ ssrc |-> ssrc, payload_type |-> 0, clock_rate |-> DEFAULT_CLOCK_RATE,
                        dtmf_payload_type |-> DEFAULT_DTMF_PT, cname |-> DEFAULT_CNAME,
                        remote_addr |-> remote_addr,
                        remote_rtcp_addr |-> create_remote_rtcp_addr(remote_addr) ] :
                          ssrc \in SsrcChoices, remote_addr \in RemoteAddrs }
    /\ closed = FALSE
    /\ rtcp_task = [pc |-> "pending", sleep_done |-> FALSE, must_cancel |-> FALSE]
    /\ close_pc = [k \in Closers |-> "idle"]
    /\ first_closer = 0
    /\ rtp_transport = RtpTransport_new
    /\ rtcp_transport = RtpTransport_new
    /\ \E sn \in InitialSequenceNumbers :
           sender = RtpSender_new(session.payload_type, session.ssrc, sn)
    /\ timer_fires = 0
    /\ result = Returned("create", 0)

\* update_remote(addr): the RTCP address is the port after addr's, also for
\* port 0; _closed is not looked at.  The application calls it early in the
\* session: before more than MaxSentAtUpdate datagrams were sent.
update_remote(addr) ==
    /\ Len(rtp_transport.sent) + Len(rtcp_transport.sent) <= MaxSentAtUpdate
    /\ session' = [session EXCEPT !.remote_addr = addr,
                                  !.remote_rtcp_addr = << addr[1], addr[2] + 1 >>]
    /\ result' = Returned("update_remote", 0)
    /\ UNCHANGED << closed, rtcp_task, close_pc, first_closer, rtp_transport, rtcp_transport,
                    sender, timer_fires >>

RECURSIVE send_all(_, _, _)
send_all(t, datagrams, addr) ==
    IF datagrams = << >> THEN t
    ELSE send_all(RtpTransport_send(t, Head(datagrams), addr), Tail(datagrams), addr)

\* Mutant: send_audio without the check of _closed.
send_audio_unchecked(payload, timestamp) ==
    /\ Len(rtp_transport.sent) < MaxRtpLog + 1
    /\ LET r == send_frame(sender, payload, timestamp, 0)
       IN  /\ rtp_transport' = RtpTransport_send(rtp_transport, r.data, session.remote_addr)
           /\ sender' = r.sender
           /\ result' = Returned("send_audio", 1)
    /\ UNCHANGED << session, closed, rtcp_task, close_pc, first_closer, rtcp_transport,
                    timer_fires >>

\* send_frame raises what the transport's send raises, before it advances
\* the sender.
send_audio(payload, timestamp) ==
    /\ closed \/ Len(rtp_transport.sent) < MaxRtpLog
    /\ IF closed
       THEN /\ result' = Returned("send_audio", 0)
            /\ UNCHANGED << sender, rtp_transport >>
       ELSE LET r      == send_frame(sender, payload, timestamp, 0)
                raises == RtpTransport_send_raises(rtp_transport, session.remote_addr)
            IN  IF raises # None
                THEN /\ result' = Raised("send_audio", raises, 0)
                     /\ UNCHANGED << sender, rtp_transport >>
                ELSE /\ rtp_transport' = RtpTransport_send(rtp_transport, r.data,
                                                           session.remote_addr)
                     /\ sender' = r.sender
                     /\ result' = Returned("send_audio", 1)
    /\ UNCHANGED << session, closed, rtcp_task, close_pc, first_closer, rtcp_transport,
                    timer_fires >>

\* send_audio_pcm: the codec of the session (create(payload_type=0) takes
\* get_codec(0), a PcmuCodec) encodes, whether or not the session is closed,
\* and send_audio is called with the payload.
send_audio_pcm(pcm, timestamp) ==
    LET encoded == PcmuCodec_encode(pcm)
    IN  IF ~encoded.ok
        THEN /\ result' = Raised("send_audio_pcm", encoded.error, 0)
             /\ UNCHANGED << session, closed, rtcp_task, close_pc, first_closer,
                             rtp_transport, rtcp_transport, sender, timer_fires >>
        ELSE send_audio(encoded.data, timestamp)

send_dtmf(digit, duration_ms, timestamp) ==
    /\ closed \/ Len(rtp_transport.sent) < MaxRtpLog
    /\ IF closed
       THEN /\ result' = Returned("send_dtmf", 0)
            /\ UNCHANGED << sender, rtp_transport >>
       ELSE LET r == send_digit(sender,
                                [dtmf_payload_type |-> session.dtmf_payload_type,
                                 clock_rate |-> session.clock_rate],
                                digit, duration_ms, DEFAULT_VOLUME, timestamp)
                raises == IF r.packets = << >> THEN None
                          ELSE RtpTransport_send_raises(rtp_transport, session.remote_addr)
            IN  IF raises # None
                THEN /\ result' = Raised("send_dtmf", raises, 0)
                     /\ UNCHANGED << sender, rtp_transport >>
                ELSE /\ rtp_transport' = send_all(rtp_transport, r.packets,
                                                  session.remote_addr)
                     /\ sender' = r.sender
                     /\ result' = [op |-> "send_dtmf", raised |-> r.raised,
                                   sent |-> Len(r.packets)]
    /\ UNCHANGED << session, closed, rtcp_task, close_pc, first_closer, rtcp_transport,
                    timer_fires >>

\* Mutant: the sender report carries the two counts in each other's place.
_send_sr_counts_swapped(t, snd, ntp_time) ==
    LET sr   == RtcpSrPacket(session.ssrc,
                             RtcpSenderInfo(ntp_time, 0, snd.octets_sent, snd.packets_sent))
        sdes == RtcpSdesPacket(<< RtcpSourceInfo(session.ssrc,
                                                 << << SDES_CNAME, session.cname >> >>) >>)
    IN  RtpTransport_send(t, RtcpSrPacket_bytes(sr) \o RtcpSdesPacket_bytes(sdes),
                          session.remote_rtcp_addr)

_send_sr(t, snd, ntp_time) ==
    LET sr   == RtcpSrPacket(session.ssrc,
                             RtcpSenderInfo(ntp_time, 0, snd.packets_sent, snd.octets_sent))
        sdes == RtcpSdesPacket(<< RtcpSourceInfo(session.ssrc,
                                                 << << SDES_CNAME, session.cname >> >>) >>)
    IN  RtpTransport_send(t, RtcpSrPacket_bytes(sr) \o RtcpSdesPacket_bytes(sdes),
                          session.remote_rtcp_addr)

_send_bye(t) ==
    RtpTransport_send(t, RtcpByePacket_bytes(RtcpByePacket(<< session.ssrc >>)),
                      session.remote_rtcp_addr)

\* What _send_sr and _send_bye raise: what the RTCP transport's send raises.
_send_rtcp_raises(t) == RtpTransport_send_raises(t, session.remote_rtcp_addr)

\* The future of the task's asyncio.sleep(interval) completes.  Once the
\* task is cancelled the future is cancelled and the timer changes nothing.
sleep_elapsed ==
    /\ rtcp_task.pc = "sleeping"
    /\ ~rtcp_task.sleep_done
    /\ ~rtcp_task.must_cancel
    /\ timer_fires < MaxTimer
    /\ rtcp_task' = [rtcp_task EXCEPT !.sleep_done = TRUE]
    /\ timer_fires' = timer_fires + 1
    /\ result' = Returned("sleep_elapsed", 0)
    /\ UNCHANGED << session, closed, close_pc, first_closer, rtp_transport, rtcp_transport,
                    sender >>

\* Mutant: the task swallows the cancellation and does not look at _closed
\* after its sleep.
_run_rtcp_deaf(ntp_time) ==
    /\ \/ rtcp_task.pc = "pending"
       \/ rtcp_task.pc = "sleeping" /\ (rtcp_task.sleep_done \/ rtcp_task.must_cancel)
    /\ IF rtcp_task.pc = "sleeping" /\ rtcp_task.sleep_done
       THEN /\ rtcp_transport' = _send_sr(rtcp_transport, sender, ntp_time)
            /\ rtcp_task' = [pc |-> IF closed THEN "done" ELSE "sleeping",
                             sleep_done |-> FALSE, must_cancel |-> FALSE]
            /\ result' = Returned("_run_rtcp sent", 1)
       ELSE /\ rtcp_task' = [pc |-> IF closed THEN "done" ELSE "sleeping",
                             sleep_done |-> FALSE, must_cancel |-> FALSE]
            /\ result' = Returned("_run_rtcp", 0)
            /\ UNCHANGED rtcp_transport
    /\ UNCHANGED << session, closed, close_pc, first_closer, rtp_transport, sender,
                    timer_fires >>

\* Mutant: the task ends after the first report instead of looping.
_run_rtcp_once(ntp_time) ==
    /\ \/ rtcp_task.pc = "pending"
       \/ rtcp_task.pc = "sleeping" /\ (rtcp_task.sleep_done \/ rtcp_task.must_cancel)
    /\ IF rtcp_task.must_cancel
       THEN /\ rtcp_task' = [pc |-> "done", sleep_done |-> FALSE, must_cancel |-> FALSE]
            /\ result' = Returned(IF rtcp_task.sleep_done
                                   THEN "_run_rtcp cancelled, timer expired"
                                   ELSE "_run_rtcp cancelled", 0)
            /\ UNCHANGED rtcp_transport
       ELSE IF closed
       THEN /\ rtcp_task' = [pc |-> "done", sleep_done |-> FALSE, must_cancel |-> FALSE]
            /\ result' = Returned("_run_rtcp closed", 0)
            /\ UNCHANGED rtcp_transport
       ELSE IF rtcp_task.pc = "pending"
       THEN /\ rtcp_task' = [pc |-> "sleeping", sleep_done |-> FALSE, must_cancel |-> FALSE]
            /\ result' = Returned("_run_rtcp started", 0)
            /\ UNCHANGED rtcp_transport
       ELSE /\ rtcp_transport' = _send_sr(rtcp_transport, sender, ntp_time)
            /\ rtcp_task' = [pc |-> "done", sleep_done |-> FALSE, must_cancel |-> FALSE]
            /\ result' = Returned("_run_rtcp sent", 1)
    /\ UNCHANGED << session, closed, close_pc, first_closer, rtp_transport, sender,
                    timer_fires >>

\* One run of the RTCP task, from its start or from its sleep to its next
\* suspension or its end.
_run_rtcp(ntp_time) ==
    /\ \/ rtcp_task.pc = "pending"
       \/ rtcp_task.pc = "sleeping" /\ (rtcp_task.sleep_done \/ rtcp_task.must_cancel)
    /\ IF rtcp_task.must_cancel
       THEN \* CancelledError is thrown into the coroutine
            /\ rtcp_task' = [pc |-> "done", sleep_done |-> FALSE, must_cancel |-> FALSE]
            /\ result' = Returned(IF rtcp_task.sleep_done
                                   THEN "_run_rtcp cancelled, timer expired"
                                   ELSE "_run_rtcp cancelled", 0)
            /\ UNCHANGED rtcp_transport
       ELSE IF closed
       THEN \* while not self._closed / if self._closed: break
            /\ rtcp_task' = [pc |-> "done", sleep_done |-> FALSE, must_cancel |-> FALSE]
            /\ result' = Returned("_run_rtcp closed", 0)
            /\ UNCHANGED rtcp_transport
       ELSE IF rtcp_task.pc = "pending"
       THEN /\ rtcp_task' = [pc |-> "sleeping", sleep_done |-> FALSE, must_cancel |-> FALSE]
            /\ result' = Returned("_run_rtcp started", 0)
            /\ UNCHANGED rtcp_transport
       ELSE IF _send_rtcp_raises(rtcp_transport) # None
       THEN \* only CancelledError is caught: the task ends with the exception
            /\ rtcp_task' = [pc |-> "done", sleep_done |-> FALSE, must_cancel |-> FALSE]
            /\ result' = Raised("_run_rtcp", _send_rtcp_raises(rtcp_transport), 0)
            /\ UNCHANGED rtcp_transport
       ELSE /\ rtcp_transport' = _send_sr(rtcp_transport, sender, ntp_time)
            /\ rtcp_task' = [pc |-> "sleeping", sleep_done |-> FALSE, must_cancel |-> FALSE]
            /\ result' = Returned("_run_rtcp sent", 1)
    /\ UNCHANGED << session, closed, close_pc, first_closer, rtp_transport, sender,
                    timer_fires >>

\* Mutant: close() without the early return on _closed.
close_again(k) ==
    /\ close_pc[k] = "idle"
    /\ closed' = TRUE
    /\ first_closer' = IF first_closer = 0 THEN k ELSE first_closer
    /\ IF rtcp_task.pc = "done"
       THEN /\ rtcp_transport' = _send_bye(rtcp_transport)
            /\ close_pc' = [close_pc EXCEPT ![k] = "yield"]
            /\ UNCHANGED rtcp_task
       ELSE /\ rtcp_task' = [rtcp_task EXCEPT !.must_cancel = TRUE]
            /\ close_pc' = [close_pc EXCEPT ![k] = "await_task"]
            /\ UNCHANGED rtcp_transport
    /\ result' = Returned("close", 0)
    /\ UNCHANGED << session, rtp_transport, sender, timer_fires >>

\* close(), from the call to its first suspension (or its return).  An
\* exception of _send_bye leaves close() before it closes the transports.
close(k) ==
    /\ close_pc[k] = "idle"
    /\ IF closed
       THEN /\ close_pc' = [close_pc EXCEPT ![k] = "done"]
            /\ UNCHANGED << closed, first_closer, rtcp_task, rtcp_transport >>
       ELSE /\ closed' = TRUE
            /\ first_closer' = k
            /\ IF rtcp_task.pc = "done"
               THEN \* awaiting a finished task does not suspend
                    /\ rtcp_transport' = _send_bye(rtcp_transport)
                    /\ close_pc' = [close_pc EXCEPT ![k] =
                                        IF _send_rtcp_raises(rtcp_transport) # None
                                        THEN "done" ELSE "yield"]
                    /\ UNCHANGED rtcp_task
               ELSE \* self._rtcp_task.cancel(); await self._rtcp_task
                    /\ rtcp_task' = [rtcp_task EXCEPT !.must_cancel = TRUE]
                    /\ close_pc' = [close_pc EXCEPT ![k] = "await_task"]
                    /\ UNCHANGED rtcp_transport
    /\ result' = IF closed \/ rtcp_task.pc # "done" THEN Returned("close", 0)
                 ELSE IF _send_rtcp_raises(rtcp_transport) # None
                 THEN Raised("close", _send_rtcp_raises(rtcp_transport), 0)
                 ELSE Returned("close", 1)
    /\ UNCHANGED << session, rtp_transport, sender, timer_fires >>

\* Mutant: close() closes the transports before it sends the BYE.
close_after_await_closing_first(k) ==
    /\ close_pc[k] = "await_task"
    /\ rtcp_task.pc = "done"
    /\ rtp_transport' = RtpTransport_close(rtp_transport, k)
    /\ rtcp_transport' = _send_bye(RtpTransport_close(rtcp_transport, k))
    /\ close_pc' = [close_pc EXCEPT ![k] = "done"]
    /\ result' = Returned("close_after_await", 0)
    /\ UNCHANGED << session, closed, rtcp_task, first_closer, sender, timer_fires >>

\* close() resumes when the RTCP task has ended: _send_bye(), then
\* await asyncio.sleep(0).
close_after_await(k) ==
    /\ close_pc[k] = "await_task"
    /\ rtcp_task.pc = "done"
    /\ rtcp_transport' = _send_bye(rtcp_transport)
    /\ IF _send_rtcp_raises(rtcp_transport) # None
       THEN /\ close_pc' = [close_pc EXCEPT ![k] = "done"]
            /\ result' = Raised("close_after_await", _send_rtcp_raises(rtcp_transport), 0)
       ELSE /\ close_pc' = [close_pc EXCEPT ![k] = "yield"]
            /\ result' = Returned("close_after_await", 1)
    /\ UNCHANGED << session, closed, rtcp_task, first_closer, rtp_transport, sender,
                    timer_fires >>

\* close() resumes after its yield and closes both transports.
close_after_sleep(k) ==
    /\ close_pc[k] = "yield"
    /\ rtp_transport' = RtpTransport_close(rtp_transport, k)
    /\ rtcp_transport' = RtpTransport_close(rtcp_transport, k)
    /\ close_pc' = [close_pc EXCEPT ![k] = "done"]
    /\ result' = Returned("close_after_sleep", 0)
    /\ UNCHANGED << session, closed, rtcp_task, first_closer, sender, timer_fires >>

\* The event loop's next iteration after close(): connection_lost is called
\* on the transports that were closed, and their sockets are closed.
connection_lost ==
    /\ \/ ~rtp_transport.open /\ ~rtp_transport.lost
       \/ ~rtcp_transport.open /\ ~rtcp_transport.lost
    /\ rtp_transport' = RtpTransport_connection_lost(rtp_transport)
    /\ rtcp_transport' = RtpTransport_connection_lost(rtcp_transport)
    /\ result' = Returned("connection_lost", 0)
    /\ UNCHANGED << session, closed, rtcp_task, close_pc, first_closer, sender, timer_fires >>

(***************************************************************************)
(* dtmf.py, DtmfSender on its own: send_digit calls on one DtmfSender.     *)
(*                                                                         *)
(*   dtmf_tx    the DtmfSender: its clock rate, payload type and RtpSender *)
(*   tx_call    the last send_digit call: its arguments, the datagrams it  *)
(*              handed to the transport, and the exception it raised       *)
(*   tx_count   the number of calls made                                   *)
(***************************************************************************)
VARIABLES dtmf_tx, tx_call, tx_count

tx_vars == << dtmf_tx, tx_call, tx_count >>

TxClockRates == {8000, 16000, 48000}
TxDigits == {"5", "#", "d", "x", ""}
TxDurations == {0, 20, 50, 160, 1400}
TxTimestamps == {0, 4000}

TxInit ==
    /\ dtmf_tx \in [ clock_rate : TxClockRates, dtmf_payload_type : {DEFAULT_DTMF_PT},
                     sender : {RtpSender_new(0, ssrc, sn) :
                                   ssrc \in SsrcChoices, sn \in InitialSequenceNumbers} ]
    /\ tx_call = [ digit |-> None, duration_ms |-> 0, timestamp |-> 0, packets |-> << >>,
                   raised |-> None, before |-> dtmf_tx.sender ]
    /\ tx_count = 0

send_digit_call(digit, duration_ms, timestamp) ==
    /\ tx_count < MaxDigitCalls
    /\ LET r == send_digit(dtmf_tx.sender, dtmf_tx, digit, duration_ms, DEFAULT_VOLUME, timestamp)
       IN  /\ dtmf_tx' = [dtmf_tx EXCEPT !.sender = r.sender]
           /\ tx_call' = [ digit |-> digit, duration_ms |-> duration_ms,
                           timestamp |-> timestamp, packets |-> r.packets,
                           raised |-> r.raised, before |-> dtmf_tx.sender ]
    /\ tx_count' = tx_count + 1

(***************************************************************************)
(* dtmf.py, DtmfReceiver on its own: telephone-event packets handed to     *)
(* handle_packet.                                                          *)
(*                                                                         *)
(*   dtmf_rx    the receiver: _current_event, _current_timestamp,          *)
(*              _end_seen                                                  *)
(*   rx_run     the packets handled since the RTP timestamp last changed   *)
(*   rx_calls   the (digit, duration) pairs the callback got during rx_run *)
(*   rx_count   the number of packets handled                              *)
(*   rx_log     every packet handled, in order of arrival, with the calls  *)
(*              of the callback it caused                                  *)
(***************************************************************************)
VARIABLES dtmf_rx, rx_run, rx_calls, rx_count, rx_log

rx_vars == << dtmf_rx, rx_run, rx_calls, rx_count, rx_log >>

\* _current_event and _current_timestamp are None (<< >>) or hold a value
\* (a one-element sequence).
DtmfReceiver_new ==
    [current_event |-> << >>, current_timestamp |-> << >>, end_seen |-> FALSE]

\* Mutant: the callback fires on every end packet.
handle_packet_every_end(rx, packet) ==
    LET event == DtmfEvent_parse(packet.payload)
    IN  IF ~event.ok
        THEN [receiver |-> rx, raised |-> "ValueError", on_dtmf |-> << >>]
        ELSE LET rx1 == IF << packet.timestamp >> # rx.current_timestamp
                        THEN [ current_event |-> << event.event >>,
                               current_timestamp |-> << packet.timestamp >>,
                               end_seen |-> FALSE ]
                        ELSE rx
             IN  IF event.end
                 THEN [ receiver |-> [rx1 EXCEPT !.end_seen = TRUE], raised |-> None,
                        on_dtmf |-> << << DtmfEvent_digit(event), event.duration >> >> ]
                 ELSE [receiver |-> rx1, raised |-> None, on_dtmf |-> << >>]

\* Mutant: a new timestamp does not clear _end_seen.
handle_packet_keeps_end_seen(rx, packet) ==
    LET event == DtmfEvent_parse(packet.payload)
    IN  IF ~event.ok
        THEN [receiver |-> rx, raised |-> "ValueError", on_dtmf |-> << >>]
        ELSE LET rx1 == IF << packet.timestamp >> # rx.current_timestamp
                        THEN [ current_event |-> << event.event >>,
                               current_timestamp |-> << packet.timestamp >>,
                               end_seen |-> rx.end_seen ]
                        ELSE rx
             IN  IF event.end /\ ~rx1.end_seen
                 THEN [ receiver |-> [rx1 EXCEPT !.end_seen = TRUE], raised |-> None,
                        on_dtmf |-> << << DtmfEvent_digit(event), event.duration >> >> ]
                 ELSE [receiver |-> rx1, raised |-> None, on_dtmf |-> << >>]

\* The receiver afterwards, the exception raised, and the calls of the
\* callback (none or one).
handle_packet(rx, packet) ==
    LET event == DtmfEvent_parse(packet.payload)
    IN  IF ~event.ok
        THEN [receiver |-> rx, raised |-> "ValueError", on_dtmf |-> << >>]
        ELSE LET rx1 == IF << packet.timestamp >> # rx.current_timestamp
                        THEN [ current_event |-> << event.event >>,
                               current_timestamp |-> << packet.timestamp >>,
                               end_seen |-> FALSE ]
                        ELSE rx
             IN  IF event.end /\ ~rx1.end_seen
                 THEN [ receiver |-> [rx1 EXCEPT !.end_seen = TRUE], raised |-> None,
                        on_dtmf |-> << << DtmfEvent_digit(event), event.duration >> >> ]
                 ELSE [receiver |-> rx1, raised |-> None, on_dtmf |-> << >>]

\* Telephone-event packets as a peer sends them: events 5 and 16 (no
\* digit), progress and end packets, two RTP timestamps.
RxEvents ==
    { DtmfEvent(5, FALSE, DEFAULT_VOLUME, 160), DtmfEvent(5, TRUE, DEFAULT_VOLUME, 320),
      DtmfEvent(5, TRUE, DEFAULT_VOLUME, 480), DtmfEvent(16, TRUE, DEFAULT_VOLUME, 320) }
RxTimestamps == {1000, 2000}
RxPackets ==
    { RtpPacket(DEFAULT_DTMF_PT, 0, 100, ts, 4661, DtmfEvent_serialize(ev)) :
          ts \in RxTimestamps, ev \in RxEvents }

RxInit ==
    /\ dtmf_rx = DtmfReceiver_new
    /\ rx_run = << >>
    /\ rx_calls = << >>
    /\ rx_count = 0
    /\ rx_log = << >>

dtmf_packet(packet) ==
    /\ rx_count < MaxDtmfPackets
    /\ LET r == handle_packet(dtmf_rx, packet)
           same_run == rx_run # << >> /\ rx_run[Len(rx_run)].timestamp = packet.timestamp
       IN  /\ dtmf_rx' = r.receiver
           /\ rx_run' = IF same_run THEN Append(rx_run, packet) ELSE << packet >>
           /\ rx_calls' = (IF same_run THEN rx_calls ELSE << >>) \o r.on_dtmf
           /\ rx_log' = Append(rx_log, [packet |-> packet, calls |-> r.on_dtmf])
    /\ rx_count' = rx_count + 1


(***************************************************************************)
(* An optional value: << >> is None, << v >> holds v.                      *)
(***************************************************************************)
(***************************************************************************)
(* jitterbuffer.py: the reordering window.  capacity slots, the slot of    *)
(* sequence number S being S mod capacity; origin is the sequence number   *)
(* of the window's head.  A frame is the run of packets from the origin    *)
(* that share one RTP timestamp, and it is emitted once prefetch further   *)
(* frame boundaries follow it.                                             *)
(***************************************************************************)
\* Whether a packet `misorder` behind the origin is too old and dropped:
\* it is not more than 16 windows behind, and the window is shorter than 128
\* or the packet less than a window behind.  Any other packet from behind is
\* taken for a restart of the sender and resets the window.
DroppedAsOld(capacity, misorder) ==
    /\ misorder <= 16 * capacity
    /\ capacity < 128 \/ misorder < capacity

MAX_AUDIO_GAP == 3

JitterFrame(data, timestamp) == [data |-> data, timestamp |-> timestamp]

JitterBuffer_new(capacity, prefetch, is_video, skip_audio_gaps) ==
    [ capacity |-> capacity, prefetch |-> prefetch, is_video |-> is_video,
      skip_audio_gaps |-> skip_audio_gaps,
      origin |-> << >>, packets |-> [i \in 1..capacity |-> << >>] ]

\* The slots counted from one place further on.
SlotAt_shifted(jb, pos) == ((pos + 1) % jb.capacity) + 1

\* The index in packets (1-based) of the slot at position pos.
SlotAt(jb, pos) == (pos % jb.capacity) + 1

\* remove: clears the count slots from the origin on and advances the origin
\* past them.
JitterBuffer_remove(jb, count) ==
    LET cleared == {SlotAt(jb, uint16_add(jb.origin[1], k)) : k \in 0..(count - 1)}
    IN  [jb EXCEPT !.packets = [i \in 1..jb.capacity |-> IF i \in cleared THEN << >> ELSE @[i]],
                   !.origin = << uint16_add(jb.origin[1], count) >>]

\* The packet in the slot i positions after the origin.
PacketAfter(jb, i) == jb.packets[SlotAt(jb, uint16_add(jb.origin[1], i))]

\* smart_remove that stops at the first packet from count on, whatever its
\* timestamp.
smart_remove_to_next_packet(jb, count) ==
    LET stops == {i \in 0..(jb.capacity - 1) : PacketAfter(jb, i) # << >> /\ i >= count}
    IN  IF stops = {}
        THEN [jb |-> JitterBuffer_remove(jb, jb.capacity), result |-> TRUE]
        ELSE LET i == CHOOSE i \in stops : \A j \in stops : i <= j
             IN  [jb |-> JitterBuffer_remove(jb, i), result |-> FALSE]

\* smart_remove walks i = 0 .. capacity - 1 from the origin, clearing slots,
\* and stops at the first i >= count whose packet's timestamp differs from
\* that of the last packet it cleared (a packet always differs from none).
\* It removes at least count slots and then up to the end of the frame it
\* is in; result says it cleared the whole window.
smart_remove(jb, count) ==
    LET Occupied(i) == PacketAfter(jb, i) # << >>
        LastTimestamp(i) ==
            IF \E j \in 0..(i - 1) : Occupied(j)
            THEN LET j == CHOOSE j \in 0..(i - 1) :
                              Occupied(j) /\ \A k \in (j + 1)..(i - 1) : ~Occupied(k)
                 IN  << PacketAfter(jb, j)[1].timestamp >>
            ELSE << >>
        Stops(i) == /\ Occupied(i) /\ i >= count
                    /\ LastTimestamp(i) # << PacketAfter(jb, i)[1].timestamp >>
        stops == {i \in 0..(jb.capacity - 1) : Stops(i)}
    IN  IF stops = {}
        THEN [jb |-> JitterBuffer_remove(jb, jb.capacity), result |-> TRUE]
        ELSE LET i == CHOOSE i \in stops : \A j \in stops : i <= j
             IN  [jb |-> JitterBuffer_remove(jb, i), result |-> FALSE]

\* The loop of _remove_frame from iteration count on; st holds frame,
\* frames, the payloads of packets (joined), remove, timestamp and the
\* number of empty slots passed since the last packet.  An empty slot ends
\* the walk, except with skip_audio_gaps in audio mode, where up to
\* MAX_AUDIO_GAP empty slots after a packet are passed over.
RECURSIVE _remove_frame_loop(_, _, _)
_remove_frame_loop(jb, count, st) ==
    IF count = jb.capacity THEN [jb |-> jb, frame |-> << >>]
    ELSE
    LET packet == jb.packets[SlotAt(jb, jb.origin[1] + count)]
    IN  IF packet = << >>
        THEN IF /\ jb.skip_audio_gaps /\ ~jb.is_video /\ st.timestamp # << >>
                /\ st.gap < MAX_AUDIO_GAP
             THEN _remove_frame_loop(jb, count + 1, [st EXCEPT !.gap = @ + 1])
             ELSE [jb |-> jb, frame |-> << >>]
        ELSE IF st.timestamp = << >>
        THEN _remove_frame_loop(jb, count + 1,
                 [st EXCEPT !.timestamp = << packet[1].timestamp >>,
                            !.data = st.data \o packet[1].payload])
        ELSE IF << packet[1].timestamp >> # st.timestamp
        THEN LET st1 == IF st.frame = << >>
                        THEN [st EXCEPT !.frame = << JitterFrame(st.data, st.timestamp[1]) >>,
                                        !.remove = count]
                        ELSE st
                 frames == st1.frames + 1
             IN  IF frames >= jb.prefetch
                 THEN [jb |-> JitterBuffer_remove(jb, st1.remove), frame |-> st1.frame]
                 ELSE _remove_frame_loop(jb, count + 1,
                          [st1 EXCEPT !.frames = frames, !.gap = 0,
                                      !.data = packet[1].payload,
                                      !.timestamp = << packet[1].timestamp >>])
        ELSE _remove_frame_loop(jb, count + 1,
                 [st EXCEPT !.data = st.data \o packet[1].payload, !.gap = 0])

\* _remove_frame that passes over empty slots in video mode as well.
_remove_frame_skip_in_video(jb, sequence_number) ==
    LET out == _remove_frame_loop([jb EXCEPT !.is_video = FALSE, !.skip_audio_gaps = TRUE], 0,
                   [ frame |-> << >>, frames |-> 0, data |-> << >>, remove |-> 0,
                     timestamp |-> << >>, gap |-> 0 ])
    IN  [jb |-> [out.jb EXCEPT !.is_video = jb.is_video,
                               !.skip_audio_gaps = jb.skip_audio_gaps],
         frame |-> out.frame]

\* _remove_frame that stops at every empty slot, skip_audio_gaps or not.
_remove_frame_never_skips(jb, sequence_number) ==
    LET out == _remove_frame_loop([jb EXCEPT !.skip_audio_gaps = FALSE], 0,
                   [ frame |-> << >>, frames |-> 0, data |-> << >>, remove |-> 0,
                     timestamp |-> << >>, gap |-> 0 ])
    IN  [jb |-> [out.jb EXCEPT !.skip_audio_gaps = jb.skip_audio_gaps], frame |-> out.frame]

\* _remove_frame that does not wait for prefetch boundaries.
_remove_frame_no_prefetch(jb, sequence_number) ==
    LET out == _remove_frame_loop([jb EXCEPT !.prefetch = 0], 0,
                   [ frame |-> << >>, frames |-> 0, data |-> << >>, remove |-> 0,
                     timestamp |-> << >>, gap |-> 0 ])
    IN  [jb |-> [out.jb EXCEPT !.prefetch = jb.prefetch], frame |-> out.frame]

_remove_frame(jb, sequence_number) ==
    _remove_frame_loop(jb, 0, [ frame |-> << >>, frames |-> 0, data |-> << >>, remove |-> 0,
                                timestamp |-> << >>, gap |-> 0 ])

\* add with remove in the place of smart_remove.
JitterBuffer_add_plain_remove(jb, packet) ==
    LET seq      == packet.sequence_number
        first    == jb.origin = << >>
        jb0      == IF first THEN [jb EXCEPT !.origin = << seq >>] ELSE jb
        delta    == IF first THEN 0 ELSE uint16_add(seq, -jb.origin[1])
        misorder == IF first THEN 0 ELSE uint16_add(jb.origin[1], -seq)
    IN  IF misorder < delta /\ DroppedAsOld(jb.capacity, misorder)
        THEN [jb |-> jb0, pli_flag |-> FALSE, frame |-> << >>, reset |-> FALSE,
              placed |-> jb0]
        ELSE
        LET reset  == misorder < delta
            jb1    == IF reset
                      THEN [JitterBuffer_remove(jb0, jb0.capacity) EXCEPT !.origin = << seq >>]
                      ELSE jb0
            delta1 == IF reset THEN 0 ELSE delta
            over   == delta1 >= jb1.capacity
            sr     == [jb |-> JitterBuffer_remove(jb1, delta1 - jb1.capacity + 1),
                       result |-> FALSE]
            jb2    == IF ~over THEN jb1
                      ELSE IF sr.result THEN [sr.jb EXCEPT !.origin = << seq >>]
                      ELSE sr.jb
            jb3    == [jb2 EXCEPT !.packets[SlotAt(jb2, seq)] = << packet >>]
            out    == _remove_frame(jb3, seq)
        IN  [ jb |-> out.jb, pli_flag |-> jb.is_video /\ (reset \/ over),
              frame |-> out.frame, reset |-> reset, placed |-> jb3 ]

\* add that drops every packet from behind the origin, however far.
JitterBuffer_add_no_restart(jb, packet) ==
    LET seq      == packet.sequence_number
        first    == jb.origin = << >>
        jb0      == IF first THEN [jb EXCEPT !.origin = << seq >>] ELSE jb
        delta    == IF first THEN 0 ELSE uint16_add(seq, -jb.origin[1])
        misorder == IF first THEN 0 ELSE uint16_add(jb.origin[1], -seq)
    IN  IF misorder < delta
        THEN [jb |-> jb0, pli_flag |-> FALSE, frame |-> << >>, reset |-> FALSE,
              placed |-> jb0]
        ELSE
        LET reset  == misorder < delta
            jb1    == IF reset
                      THEN [JitterBuffer_remove(jb0, jb0.capacity) EXCEPT !.origin = << seq >>]
                      ELSE jb0
            delta1 == IF reset THEN 0 ELSE delta
            over   == delta1 >= jb1.capacity
            sr     == smart_remove(jb1, delta1 - jb1.capacity + 1)
            jb2    == IF ~over THEN jb1
                      ELSE IF sr.result THEN [sr.jb EXCEPT !.origin = << seq >>]
                      ELSE sr.jb
            jb3    == [jb2 EXCEPT !.packets[SlotAt(jb2, seq)] = << packet >>]
            out    == _remove_frame(jb3, seq)
        IN  [ jb |-> out.jb, pli_flag |-> jb.is_video /\ (reset \/ over),
              frame |-> out.frame, reset |-> reset, placed |-> jb3 ]

\* add: the buffer afterwards, the PLI flag, the frame emitted (or none),
\* whether the packet reset the window from behind, and the buffer as it
\* was with the packet placed, before _remove_frame.
JitterBuffer_add(jb, packet) ==
    LET seq      == packet.sequence_number
        first    == jb.origin = << >>
        jb0      == IF first THEN [jb EXCEPT !.origin = << seq >>] ELSE jb
        delta    == IF first THEN 0 ELSE uint16_add(seq, -jb.origin[1])
        misorder == IF first THEN 0 ELSE uint16_add(jb.origin[1], -seq)
    IN  IF misorder < delta /\ DroppedAsOld(jb.capacity, misorder)
        THEN [jb |-> jb0, pli_flag |-> FALSE, frame |-> << >>, reset |-> FALSE,
              placed |-> jb0]
        ELSE
        LET reset  == misorder < delta
            jb1    == IF reset
                      THEN [JitterBuffer_remove(jb0, jb0.capacity) EXCEPT !.origin = << seq >>]
                      ELSE jb0
            delta1 == IF reset THEN 0 ELSE delta
            over   == delta1 >= jb1.capacity
            sr     == smart_remove(jb1, delta1 - jb1.capacity + 1)
            jb2    == IF ~over THEN jb1
                      ELSE IF sr.result THEN [sr.jb EXCEPT !.origin = << seq >>]
                      ELSE sr.jb
            jb3    == [jb2 EXCEPT !.packets[SlotAt(jb2, seq)] = << packet >>]
            out    == _remove_frame(jb3, seq)
        IN  [ jb |-> out.jb, pli_flag |-> jb.is_video /\ (reset \/ over),
              frame |-> out.frame, reset |-> reset, placed |-> jb3 ]

(***************************************************************************)
(* stats.py, StreamStatistics.                                             *)
(***************************************************************************)
\* Python integers are unbounded and an RTP timestamp takes 32 bits: the
\* values of the jitter computation are kept as h * 2^16 + l, 0 <= l < 2^16.
Wide(n) == [h |-> n \div 65536, l |-> n % 65536]

WideAdd(a, b) == [h |-> a.h + b.h + ((a.l + b.l) \div 65536), l |-> (a.l + b.l) % 65536]

WideSub(a, b) == [h |-> a.h - b.h + ((a.l - b.l) \div 65536), l |-> (a.l - b.l) % 65536]

WideAbs(a) == IF a.h < 0 THEN WideSub(Wide(0), a) ELSE a

\* a >> 4
WideShr4(a) == [h |-> a.h \div 16, l |-> ((a.h % 16) * 65536 + a.l) \div 16]

StreamStatistics_new(clockrate) ==
    [ base_seq |-> << >>, max_seq |-> << >>, cycles |-> 0, packets_received |-> 0,
      clockrate |-> clockrate, jitter_q4 |-> Wide(0), last_arrival |-> << >>,
      last_timestamp |-> << >>, expected_prior |-> 0, received_prior |-> 0 ]

\* The wall clock is counted in milliseconds: time.time() is the double
\* nearest time_ms / 1000.  Its product with the clock rate, rounded to a
\* double, falls just below the whole number time_ms * clockrate / 1000 at
\* these milliseconds, for 0 <= time_ms <= 4999 and the clock rates 8000,
\* 16000 (the same doubles, the exponent one higher) and 48000.
ShortProducts(clockrate) ==
    IF clockrate \in {8000, 16000}
    THEN {1001 + 2 * k : k \in 0..11} \cup {2002 + 4 * k : k \in 0..11}
         \cup {4004 + 8 * k : k \in 0..11} \cup {4007 + 8 * k : k \in 0..11}
    ELSE {9, 18, 36, 71, 72} \cup (141..145) \cup (282..291) \cup (563..582)
         \cup {1001 + 125 * j + 2 * k : j \in 0..2, k \in 0..19}
         \cup {2002 + 125 * j + 4 * k : j \in 0..5, k \in 0..19}
         \cup {4004 + 125 * j + d : j \in 0..7, d \in {0, 3, 8, 11, 16, 19, 24, 27}}
         \cup {4036 + 125 * j + 8 * k : j \in 0..7, k \in 0..11}

\* int(time.time() * clockrate): int() truncates the product.
ArrivalTime(time_ms, clockrate) ==
    (time_ms * clockrate) \div 1000 - (IF time_ms \in ShortProducts(clockrate) THEN 1 ELSE 0)

\* Mutant: add that never counts a cycle.
StreamStatistics_add_at_no_cycles(stats, seq, timestamp, arrival) ==
    LET in_order == stats.max_seq = << >> \/ uint16_gt(seq, stats.max_seq[1])
        s1       == [stats EXCEPT !.packets_received = @ + 1,
                                  !.base_seq = IF @ = << >> THEN << seq >> ELSE @]
    IN  IF ~in_order THEN s1
        ELSE
        LET wrapped == stats.max_seq # << >> /\ seq < stats.max_seq[1]
            moved   == << timestamp >> # stats.last_timestamp
                       /\ s1.packets_received > 1
            diff    == WideAbs(WideSub(Wide(arrival - stats.last_arrival[1]),
                                       WideSub(timestamp, stats.last_timestamp[1])))
        IN  [s1 EXCEPT !.cycles = @,
                       !.max_seq = << seq >>,
                       !.jitter_q4 = IF moved
                                     THEN WideSub(WideAdd(@, diff), WideShr4(WideAdd(@, Wide(8))))
                                     ELSE @,
                       !.last_arrival = << arrival >>,
                       !.last_timestamp = << timestamp >>]

\* Mutant: add that takes every packet as in order.
StreamStatistics_add_at_any_order(stats, seq, timestamp, arrival) ==
    LET in_order == TRUE
        s1       == [stats EXCEPT !.packets_received = @ + 1,
                                  !.base_seq = IF @ = << >> THEN << seq >> ELSE @]
    IN  IF ~in_order THEN s1
        ELSE
        LET wrapped == stats.max_seq # << >> /\ seq < stats.max_seq[1]
            moved   == << timestamp >> # stats.last_timestamp
                       /\ s1.packets_received > 1
            diff    == WideAbs(WideSub(Wide(arrival - stats.last_arrival[1]),
                                       WideSub(timestamp, stats.last_timestamp[1])))
        IN  [s1 EXCEPT !.cycles = IF wrapped THEN @ + 65536 ELSE @,
                       !.max_seq = << seq >>,
                       !.jitter_q4 = IF moved
                                     THEN WideSub(WideAdd(@, diff), WideShr4(WideAdd(@, Wide(8))))
                                     ELSE @,
                       !.last_arrival = << arrival >>,
                       !.last_timestamp = << timestamp >>]

\* add(packet) for a packet with this sequence number and timestamp (a Wide
\* value) when int(time.time() * clockrate) is `arrival`.
StreamStatistics_add_at(stats, seq, timestamp, arrival) ==
    LET in_order == stats.max_seq = << >> \/ uint16_gt(seq, stats.max_seq[1])
        s1       == [stats EXCEPT !.packets_received = @ + 1,
                                  !.base_seq = IF @ = << >> THEN << seq >> ELSE @]
    IN  IF ~in_order THEN s1
        ELSE
        LET wrapped == stats.max_seq # << >> /\ seq < stats.max_seq[1]
            moved   == << timestamp >> # stats.last_timestamp
                       /\ s1.packets_received > 1
            diff    == WideAbs(WideSub(Wide(arrival - stats.last_arrival[1]),
                                       WideSub(timestamp, stats.last_timestamp[1])))
        IN  [s1 EXCEPT !.cycles = IF wrapped THEN @ + 65536 ELSE @,
                       !.max_seq = << seq >>,
                       !.jitter_q4 = IF moved
                                     THEN WideSub(WideAdd(@, diff), WideShr4(WideAdd(@, Wide(8))))
                                     ELSE @,
                       !.last_arrival = << arrival >>,
                       !.last_timestamp = << timestamp >>]

StreamStatistics_add(stats, packet, time_ms) ==
    StreamStatistics_add_at(stats, packet.sequence_number, Wide(packet.timestamp),
                            ArrivalTime(time_ms, stats.clockrate))

\* Defined once max_seq and base_seq are set; before that the property
\* raises TypeError.
packets_expected(stats) == stats.cycles + stats.max_seq[1] - stats.base_seq[1] + 1

packets_lost(stats) == clamp_packets_lost(packets_expected(stats) - stats.packets_received)

jitter(stats) == WideShr4(stats.jitter_q4)

\* Mutant: fraction_lost that does not start a new interval.
fraction_lost_no_reset(stats) ==
    IF stats.max_seq = << >>
    THEN [stats |-> stats, raised |-> "TypeError", value |-> 0]
    ELSE
    LET expected_interval == packets_expected(stats) - stats.expected_prior
        received_interval == stats.packets_received - stats.received_prior
        lost_interval     == expected_interval - received_interval
    IN  [ stats |-> stats,
          raised |-> None,
          value |-> IF expected_interval = 0 \/ lost_interval <= 0 THEN 0
                    ELSE (lost_interval * 256) \div expected_interval ]

\* Mutant: fraction_lost that takes every expected packet of the interval
\* as lost.
fraction_lost_none_received(stats) ==
    IF stats.max_seq = << >>
    THEN [stats |-> stats, raised |-> "TypeError", value |-> 0]
    ELSE
    LET expected_interval == packets_expected(stats) - stats.expected_prior
        received_interval == stats.packets_received - stats.received_prior
        lost_interval     == expected_interval
    IN  [ stats |-> [stats EXCEPT !.expected_prior = packets_expected(stats),
                                  !.received_prior = stats.packets_received],
          raised |-> None,
          value |-> IF expected_interval = 0 \/ lost_interval <= 0 THEN 0
                    ELSE (lost_interval * 256) \div expected_interval ]

\* A read of fraction_lost: the statistics afterwards and the value returned.
fraction_lost(stats) ==
    IF stats.max_seq = << >>
    THEN [stats |-> stats, raised |-> "TypeError", value |-> 0]
    ELSE
    LET expected_interval == packets_expected(stats) - stats.expected_prior
        received_interval == stats.packets_received - stats.received_prior
        lost_interval     == expected_interval - received_interval
    IN  [ stats |-> [stats EXCEPT !.expected_prior = packets_expected(stats),
                                  !.received_prior = stats.packets_received],
          raised |-> None,
          value |-> IF expected_interval = 0 \/ lost_interval <= 0 THEN 0
                    ELSE (lost_interval * 256) \div expected_interval ]

(***************************************************************************)
(* codecs/pcm.py, L16Codec.decode: big-endian 16-bit samples to            *)
(* little-endian ones; struct.unpack raises struct.error when the payload  *)
(* is not a whole number of samples.                                       *)
(***************************************************************************)
L16Codec_decode(payload) ==
    IF Len(payload) # 2 * (Len(payload) \div 2)
    THEN [ok |-> FALSE, error |-> "struct.error"]
    ELSE [ ok |-> TRUE,
           data |-> [i \in 1..Len(payload) |->
                        IF i % 2 = 1 THEN payload[i + 1] ELSE payload[i - 1]] ]

(***************************************************************************)
(* session.py, the receive side of an RTPSession.                          *)
(*                                                                         *)
(*   recv        the fields the receive handlers read and write: _codec    *)
(*               ("L16" or None), whether on_audio and on_dtmf are set,    *)
(*               _clock_rate, _dtmf_payload_type, _stream_stats,           *)
(*               _jitter_buffer, _dtmf_receiver_instance (created says the *)
(*               attribute exists), _last_sr_ntp, _last_sr_rtp_ts; the     *)
(*               calls made to on_audio and on_dtmf so far; and, of the    *)
(*               last handler call, the exception it raised, the frame the *)
(*               jitter buffer emitted and whether the buffer was reset    *)
(*   recv_last   the last handler call: which handler, and its datagram    *)
(*   recv_count  the number of datagrams handled                           *)
(*   time_ms     the wall clock, in milliseconds                           *)
(*   rx_next     one more than the highest index of a media packet seen    *)
(*   rx_media    the (sequence number, timestamp) pairs of the media       *)
(*               packets handed to the jitter buffer                       *)
(*   rx_reset    whether a packet has reset the jitter buffer from behind  *)
(*   jb_frames   the frames the jitter buffer has emitted                  *)
(***************************************************************************)
VARIABLES recv, recv_last, recv_count, time_ms, rx_next, rx_media, rx_reset, jb_frames

recv_vars == << recv, recv_last, recv_count, time_ms, rx_next, rx_media, rx_reset, jb_frames >>

RecvSession(codec, on_audio, on_dtmf) ==
    [ codec |-> codec, on_audio |-> on_audio, on_dtmf |-> on_dtmf,
      clock_rate |-> DEFAULT_CLOCK_RATE, dtmf_payload_type |-> DEFAULT_DTMF_PT,
      stream_stats |-> << >>,
      jitter_buffer |-> JitterBuffer_new(JB_CAPACITY, JB_PREFETCH, FALSE, FALSE),
      dtmf_receiver_instance |-> [created |-> FALSE, receiver |-> << >>],
      last_sr_ntp |-> << >>, last_sr_rtp_ts |-> << >>,
      audio_calls |-> << >>, dtmf_calls |-> << >>,
      raised |-> None, frame |-> << >>, reset |-> FALSE ]

\* The _dtmf_receiver property: the first access creates the attribute, with
\* a DtmfReceiver only if on_dtmf is set at that moment.
_dtmf_receiver(s) ==
    IF s.dtmf_receiver_instance.created THEN s
    ELSE [s EXCEPT !.dtmf_receiver_instance =
                       [ created |-> TRUE,
                         receiver |-> IF s.on_dtmf THEN << DtmfReceiver_new >> ELSE << >> ]]

codec_decode(codec, data) == L16Codec_decode(data)

\* A handler call starts with nothing raised and no frame emitted.
Entered(s) == [s EXCEPT !.raised = None, !.frame = << >>, !.reset = FALSE]

\* Mutant: every media packet is handed to on_audio as it arrives.
_handle_rtp_unbuffered(s, data, now_ms) ==
    LET packet == RtpParse(data)
    IN  IF ~packet.ok \/ packet.payload_type = s.dtmf_payload_type THEN Entered(s)
        ELSE [Entered(s) EXCEPT !.audio_calls =
                  Append(@, [data |-> packet.payload, timestamp |-> packet.timestamp])]

\* Mutant: an exception of the codec's decode leaves the handler.
_handle_rtp_decode_unguarded(s, data, now_ms) ==
    LET packet == RtpParse(data)
    IN  IF ~packet.ok THEN Entered(s)
        ELSE IF packet.payload_type = s.dtmf_payload_type
        THEN LET s1 == _dtmf_receiver(Entered(s))
             IN  IF s1.dtmf_receiver_instance.receiver = << >> THEN s1
                 ELSE LET r == handle_packet(s1.dtmf_receiver_instance.receiver[1], packet)
                      IN  IF r.raised # None THEN [s1 EXCEPT !.raised = r.raised]
                          ELSE [s1 EXCEPT !.dtmf_receiver_instance.receiver = << r.receiver >>,
                                          !.dtmf_calls = @ \o r.on_dtmf]
        ELSE
        LET stats == IF s.stream_stats = << >> THEN StreamStatistics_new(s.clock_rate)
                     ELSE s.stream_stats[1]
            added == JitterBuffer_add(s.jitter_buffer, packet)
            s2    == [Entered(s) EXCEPT
                         !.stream_stats = << StreamStatistics_add(stats, packet, now_ms) >>,
                         !.jitter_buffer = added.jb,
                         !.frame = added.frame, !.reset = added.reset]
        IN  IF added.frame = << >> \/ ~s.on_audio THEN s2
            ELSE
            LET frame   == added.frame[1]
                decoded == IF s.codec = None THEN [ok |-> TRUE, data |-> frame.data]
                           ELSE codec_decode(s.codec, frame.data)
            IN  IF ~decoded.ok THEN [s2 EXCEPT !.raised = decoded.error]
                ELSE [s2 EXCEPT !.audio_calls =
                          Append(@, [data |-> decoded.data, timestamp |-> frame.timestamp])]

\* Mutant: the statistics are updated before the payload type is looked at.
_handle_rtp_counts_first(s, data, now_ms) ==
    LET packet == RtpParse(data)
    IN  IF ~packet.ok THEN Entered(s)
        ELSE IF packet.payload_type = s.dtmf_payload_type
        THEN LET s1 == _dtmf_receiver(
                           [Entered(s) EXCEPT !.stream_stats =
                               << StreamStatistics_add(
                                      IF @ = << >> THEN StreamStatistics_new(s.clock_rate)
                                      ELSE @[1], packet, now_ms) >>])
             IN  IF s1.dtmf_receiver_instance.receiver = << >> THEN s1
                 ELSE LET r == handle_packet(s1.dtmf_receiver_instance.receiver[1], packet)
                      IN  IF r.raised # None THEN [s1 EXCEPT !.raised = r.raised]
                          ELSE [s1 EXCEPT !.dtmf_receiver_instance.receiver = << r.receiver >>,
                                          !.dtmf_calls = @ \o r.on_dtmf]
        ELSE
        LET stats == IF s.stream_stats = << >> THEN StreamStatistics_new(s.clock_rate)
                     ELSE s.stream_stats[1]
            added == JitterBuffer_add(s.jitter_buffer, packet)
            s2    == [Entered(s) EXCEPT
                         !.stream_stats = << StreamStatistics_add(stats, packet, now_ms) >>,
                         !.jitter_buffer = added.jb,
                         !.frame = added.frame, !.reset = added.reset]
        IN  IF added.frame = << >> \/ ~s.on_audio THEN s2
            ELSE
            LET frame   == added.frame[1]
                decoded == IF s.codec = None THEN [ok |-> TRUE, data |-> frame.data]
                           ELSE codec_decode(s.codec, frame.data)
            IN  IF ~decoded.ok THEN s2
                ELSE [s2 EXCEPT !.audio_calls =
                          Append(@, [data |-> decoded.data, timestamp |-> frame.timestamp])]

_handle_rtp(s, data, now_ms) ==
    LET packet == RtpParse(data)
    IN  IF ~packet.ok THEN Entered(s)
        ELSE IF packet.payload_type = s.dtmf_payload_type
        THEN LET s1 == _dtmf_receiver(Entered(s))
             IN  IF s1.dtmf_receiver_instance.receiver = << >> THEN s1
                 ELSE LET r == handle_packet(s1.dtmf_receiver_instance.receiver[1], packet)
                      IN  IF r.raised # None THEN [s1 EXCEPT !.raised = r.raised]
                          ELSE [s1 EXCEPT !.dtmf_receiver_instance.receiver = << r.receiver >>,
                                          !.dtmf_calls = @ \o r.on_dtmf]
        ELSE
        LET stats == IF s.stream_stats = << >> THEN StreamStatistics_new(s.clock_rate)
                     ELSE s.stream_stats[1]
            added == JitterBuffer_add(s.jitter_buffer, packet)
            s2    == [Entered(s) EXCEPT
                         !.stream_stats = << StreamStatistics_add(stats, packet, now_ms) >>,
                         !.jitter_buffer = added.jb,
                         !.frame = added.frame, !.reset = added.reset]
        IN  IF added.frame = << >> \/ ~s.on_audio THEN s2
            ELSE
            LET frame   == added.frame[1]
                decoded == IF s.codec = None THEN [ok |-> TRUE, data |-> frame.data]
                           ELSE codec_decode(s.codec, frame.data)
            IN  IF ~decoded.ok THEN s2
                ELSE [s2 EXCEPT !.audio_calls =
                          Append(@, [data |-> decoded.data, timestamp |-> frame.timestamp])]

\* The loop over the parsed packets of _handle_rtcp.
RECURSIVE _handle_rtcp_packets(_, _)
_handle_rtcp_packets(s, packets) ==
    IF packets = << >> THEN s
    ELSE LET packet == Head(packets)
         IN  _handle_rtcp_packets(
                 IF packet.type = "SR"
                 THEN [s EXCEPT !.last_sr_ntp = << packet.sender_info.ntp_timestamp >>,
                                !.last_sr_rtp_ts = << packet.sender_info.rtp_timestamp >>]
                 ELSE s,
                 Tail(packets))

\* The sub-packets of data that parse before the first one that does not.
RECURSIVE RtcpParsedPrefix(_, _)
RtcpParsedPrefix(data, n) ==
    IF n = 0 \/ RtcpParse(SubSeq(data, 1, n)).ok
    THEN (IF n = 0 THEN << >> ELSE RtcpParse(SubSeq(data, 1, n)).packets)
    ELSE RtcpParsedPrefix(data, n - 1)

\* Mutant: the sub-packets are applied as far as they parse.
_handle_rtcp_partial(s, data) ==
    _handle_rtcp_packets(Entered(s), RtcpParsedPrefix(data, Len(data)))

_handle_rtcp(s, data) ==
    LET parsed == RtcpParse(data)
    IN  IF ~parsed.ok THEN Entered(s)
        ELSE _handle_rtcp_packets(Entered(s), parsed.packets)

(***************************************************************************)
(* The datagrams a peer with SSRC 4661 sends.  Media packet i has sequence *)
(* number 65533 + i (mod 2^16), timestamp 60000 + 160 i and one L16 sample *)
(* as payload; packet 0 also comes with a timestamp ahead of all others    *)
(* and with half a sample as payload, packet 2 also with the timestamp of  *)
(* packet 1.  Packet -300 is one the network held back for six seconds.    *)
(***************************************************************************)
MediaSeq(i) == uint16_add(65533, i)

MediaIndex(sequence_number) == uint16_add(sequence_number, -65533)

\* The index of the media packet with this sequence number: its signed
\* distance from packet 0.
Unwrapped(sequence_number) ==
    IF MediaIndex(sequence_number) < 32768 THEN MediaIndex(sequence_number)
    ELSE MediaIndex(sequence_number) - 65536

MediaTimestamp(i) == 60000 + 160 * i

MediaPacket(i, timestamp, payload) ==
    RtpSerialize(RtpPacket(L16_PT, 0, MediaSeq(i), timestamp, 4661, payload))

MediaDatagrams(i) ==
    {MediaPacket(i, MediaTimestamp(i), << i, i + 1 >>)}
    \cup (IF i = 0 THEN { MediaPacket(0, 70000, << 0, 1 >>),
                          MediaPacket(0, MediaTimestamp(0), << 7 >>) } ELSE {})
    \cup (IF i = 2 THEN {MediaPacket(2, MediaTimestamp(1), << 2, 3 >>)} ELSE {})

\* The network delivers packet i at most two places late or one place early.
MediaWindow == {i \in 0..(rx_next + 1) : i >= rx_next - 2}

\* It delivers the packet it held back once the stream has started.
StragglerDatagrams ==
    IF rx_next >= 1 /\ ~rx_reset
    THEN {MediaPacket(-300, MediaTimestamp(-300), << 200, 0 >>)}
    ELSE {}

DtmfDatagram(payload) == RtpSerialize(RtpPacket(DEFAULT_DTMF_PT, 0, 200, 1000, 4661, payload))

DtmfDatagrams ==
    { DtmfDatagram(DtmfEvent_serialize(DtmfEvent(5, FALSE, DEFAULT_VOLUME, 160))),
      DtmfDatagram(DtmfEvent_serialize(DtmfEvent(5, TRUE, DEFAULT_VOLUME, 320))),
      DtmfDatagram(<< 5, 138, 1 >>) }

\* Too short for an RTP header; version 0.
BadRtpDatagrams == { << 128, 11, 255 >>, << 0, 11, 255, 253, 0, 0, 3, 232, 0, 0, 18, 53, 0, 1 >> }

SrDatagram(ntp_timestamp) ==
    RtcpSrPacket_bytes(RtcpSrPacket(4661, RtcpSenderInfo(ntp_timestamp, 8000, 1, 160)))

\* A sender report with a BYE; a sender report followed by a sub-packet that
\* ends early; a sender report shorter than its sender info.
GoodRtcpDatagrams == {SrDatagram(<< 1000, 32768 >>) \o RtcpByePacket_bytes(RtcpByePacket(<< 4661 >>))}

BadRtcpDatagrams ==
    { SrDatagram(<< 1005, 0 >>) \o << 129, 203, 0, 1 >>,
      pack_rtcp_packet(RTCP_SR, 0, U32(4661)) }

RecvGhostInit ==
    /\ recv_last = [op |-> None, data |-> << >>]
    /\ recv_count = 0
    /\ time_ms = 0
    /\ rx_next = 0
    /\ rx_media = {}
    /\ rx_reset = FALSE
    /\ jb_frames = << >>

Max(a, b) == IF a >= b THEN a ELSE b

\* The RTP transport hands a datagram to _handle_rtp; packets are 20 ms apart.
rtp_datagram(data) ==
    /\ recv' = _handle_rtp(recv, data, time_ms)
    /\ recv_last' = [op |-> "_handle_rtp", data |-> data]
    /\ recv_count' = recv_count + 1
    /\ time_ms' = time_ms + 20
    /\ LET packet == RtpParse(data)
           media  == packet.ok /\ packet.payload_type # recv.dtmf_payload_type
       IN  /\ rx_media' = IF media
                          THEN rx_media \cup {<< packet.sequence_number, packet.timestamp >>}
                          ELSE rx_media
           /\ rx_next' = IF media THEN Max(rx_next, Unwrapped(packet.sequence_number) + 1)
                         ELSE rx_next
    /\ rx_reset' = (rx_reset \/ recv'.reset)
    /\ jb_frames' = jb_frames \o recv'.frame

\* The transport hands a datagram to _handle_rtcp.
rtcp_datagram(data) ==
    /\ recv' = _handle_rtcp(recv, data)
    /\ recv_last' = [op |-> "_handle_rtcp", data |-> data]
    /\ recv_count' = recv_count + 1
    /\ time_ms' = time_ms + 20
    /\ UNCHANGED << rx_next, rx_media, rx_reset, jb_frames >>

media_datagram ==
    /\ recv_count < MaxAudio
    /\ \E data \in StragglerDatagrams \cup UNION {MediaDatagrams(i) : i \in MediaWindow} :
           rtp_datagram(data)

rtp_received ==
    /\ recv_count < MaxRecv
    /\ \E data \in MediaDatagrams(0) \cup MediaDatagrams(1) \cup DtmfDatagrams \cup BadRtpDatagrams :
           rtp_datagram(data)

rtcp_received ==
    /\ recv_count < MaxRecv
    /\ \E data \in GoodRtcpDatagrams \cup BadRtcpDatagrams : rtcp_datagram(data)

(***************************************************************************)
(* transport.py: STUN detection, the Binding Success response, and the     *)
(* demultiplexing of datagram_received.  Two transports face each other:   *)
(* what one sends with sendto arrives at the other.                        *)
(*                                                                         *)
(*   net        the datagrams in flight, in the order they were sent:      *)
(*              destination and source transport, bytes, and hops, the     *)
(*              number of answers that led to this datagram (0: sent by an *)
(*              application)                                               *)
(*   stun_last  the last datagram_received call: the transport, the bytes, *)
(*              whether it answered with sendto, which handler it called   *)
(*              ("stun": none), and the datagram's hops                    *)
(*   stun_in    the number of datagrams the applications have sent         *)
(***************************************************************************)
VARIABLES net, stun_last, stun_in

stun_vars == << net, stun_last, stun_in >>

_STUN_MAGIC == 554869826

\* a ^ b on n-bit operands
RECURSIVE Xor(_, _, _)
Xor(a, b, n) ==
    IF n = 0 THEN 0
    ELSE ((a + b) % 2) + 2 * Xor(a \div 2, b \div 2, n - 1)

_is_stun(data) ==
    /\ Len(data) >= 20
    /\ data[1] \div 64 = 0
    /\ BE32(data, 5) = _STUN_MAGIC

\* addr is [ip, port], ip the four bytes of socket.inet_aton.
_stun_binding_response(request, addr) ==
    LET txn_id == Slice(request, 9, 20)
        magic  == U32(_STUN_MAGIC)
        xport  == Xor(addr.port, _STUN_MAGIC \div 65536, 16)
        xaddr  == [i \in 1..4 |-> Xor(addr.ip[i], magic[i], 8)]
        attr   == U16(32) \o U16(8) \o << 0, 1 >> \o U16(xport) \o xaddr
        header == U16(257) \o U16(Len(attr)) \o magic \o txn_id
    IN  header \o attr

\* packet.is_rtcp
is_rtcp(data) == Len(data) >= 2 /\ data[2] % 128 >= 64 /\ data[2] % 128 <= 95

\* t is the RtpTransport: [has_transport], whether connection_made has run.
\* reply is << >> or the one datagram handed to sendto(resp, addr).
datagram_received(t, data, addr) ==
    IF _is_stun(data)
    THEN [ reply |-> IF t.has_transport /\ Len(data) >= 20 /\ data[2] = 1
                     THEN << _stun_binding_response(data, addr) >>
                     ELSE << >>,
           handler |-> "stun" ]
    ELSE IF is_rtcp(data)
    THEN [reply |-> << >>, handler |-> "_on_rtcp"]
    ELSE [reply |-> << >>, handler |-> "_on_rtp"]

StunPeers == {1, 2}

\* create_datagram_endpoint has called connection_made on both.
StunTransport(p) == [has_transport |-> TRUE]

StunAddr(p) == [ip |-> << 127, 0, 0, 1 >>, port |-> 5000 + 2 * p]

StunTxn == << 1, 2, 3, 4, 5, 6, 7, 8, 9, 10, 11, 12 >>

StunMessage(first, second, cookie, txn_id) ==
    << first, second >> \o U16(0) \o U32(cookie) \o txn_id

\* Binding Request 0x0001, Binding Success 0x0101, Binding Error 0x0111,
\* Binding Indication 0x0011, a request of another method 0x0003; then what
\* is no STUN message: a wrong cookie, 19 bytes, the RTP version bits set, a
\* short RTP and a short RTCP datagram.
StunDatagrams ==
    { StunMessage(0, 1, _STUN_MAGIC, StunTxn),
      StunMessage(1, 1, _STUN_MAGIC, StunTxn),
      StunMessage(1, 17, _STUN_MAGIC, StunTxn),
      StunMessage(0, 17, _STUN_MAGIC, StunTxn),
      StunMessage(0, 3, _STUN_MAGIC, StunTxn),
      StunMessage(0, 1, _STUN_MAGIC + 1, StunTxn),
      Slice(StunMessage(0, 1, _STUN_MAGIC, StunTxn), 1, 19),
      StunMessage(128, 1, _STUN_MAGIC, StunTxn),
      << 128, 0, 0, 1 >>,
      << 129, 203, 0, 0 >> }

StunInit ==
    /\ net = << >>
    /\ stun_last = [to |-> 0, data |-> << >>, replied |-> FALSE, reply |-> << >>,
                    handler |-> None, hops |-> 0]
    /\ stun_in = 0

\* An application sends `data` from transport p to the other one.
stun_send(p, data) ==
    /\ stun_in < MaxStunIn
    /\ net' = Append(net, [to |-> 3 - p, from |-> p, data |-> data, hops |-> 0])
    /\ stun_in' = stun_in + 1
    /\ UNCHANGED stun_last

\* The event loop reads transport p's socket: the oldest datagram in flight
\* to p arrives.  Which socket the loop reads first is not the order of the
\* sends.
stun_deliver(p) ==
    /\ \E i \in DOMAIN net : net[i].to = p
    /\ LET i == CHOOSE i \in DOMAIN net :
                    net[i].to = p /\ \A j \in 1..(i - 1) : net[j].to # p
           m == net[i]
           r == datagram_received(StunTransport(m.to), m.data, StunAddr(m.from))
       IN  /\ m.hops < MaxHops
           /\ net' = SubSeq(net, 1, i - 1) \o SubSeq(net, i + 1, Len(net)) \o
                     [k \in 1..Len(r.reply) |->
                         [to |-> m.from, from |-> m.to, data |-> r.reply[k], hops |-> m.hops + 1]]
           /\ stun_last' = [to |-> m.to, data |-> m.data, replied |-> r.reply # << >>,
                            reply |-> r.reply, handler |-> r.handler, hops |-> m.hops]
    /\ UNCHANGED stun_in

(***************************************************************************)
(* stats.py, NackGenerator: max_seq (<< >> for None) and the set missing.  *)
(*                                                                         *)
(*   nack        the NackGenerator                                         *)
(*   nack_last   the last add call: the packet's sequence number, the      *)
(*               generator before the call, and the value returned         *)
(*   nack_count  the number of add calls                                   *)
(***************************************************************************)
VARIABLES nack, nack_last, nack_count

nack_vars == << nack, nack_last, nack_count >>

NackGenerator_new == [max_seq |-> << >>, missing |-> {}]

\* Mutant: truncate that removes nothing.
NackGenerator_truncate_nothing(ng) == ng

\* Mutant: truncate that keeps one sequence number more.
NackGenerator_truncate_wide(ng) ==
    IF ng.max_seq # << >>
    THEN LET min_seq == uint16_add(ng.max_seq[1], -(RTP_HISTORY_SIZE + 1))
         IN  [ng EXCEPT !.missing = {seq \in @ : ~uint16_gt(min_seq, seq)}]
    ELSE ng

NackGenerator_truncate(ng) ==
    IF ng.max_seq # << >>
    THEN LET min_seq == uint16_add(ng.max_seq[1], -RTP_HISTORY_SIZE)
         IN  [ng EXCEPT !.missing = {seq \in @ : ~uint16_gt(min_seq, seq)}]
    ELSE ng

\* The sequence numbers the while loop of add visits: from max_seq + 1 up to
\* the one before sequence_number.
NackSkipped(max_seq, sequence_number) ==
    {uint16_add(max_seq, k) : k \in 1..(((sequence_number - max_seq) % 65536) - 1)}

\* Mutant: add that reports every packet newer than max_seq as a gap.
NackGenerator_add_any_newer(ng, sequence_number) ==
    IF ng.max_seq = << >>
    THEN [nack |-> [ng EXCEPT !.max_seq = << sequence_number >>], missed |-> FALSE]
    ELSE IF uint16_gt(sequence_number, ng.max_seq[1])
    THEN [ nack |-> NackGenerator_truncate(
                        [ max_seq |-> << sequence_number >>,
                          missing |-> ng.missing \cup NackSkipped(ng.max_seq[1], sequence_number) ]),
           missed |-> TRUE ]
    ELSE [ nack |-> NackGenerator_truncate([ng EXCEPT !.missing = @ \ {sequence_number}]),
           missed |-> FALSE ]

\* Mutant: add that compares sequence numbers as plain integers.
NackGenerator_add_plain_order(ng, sequence_number) ==
    IF ng.max_seq = << >>
    THEN [nack |-> [ng EXCEPT !.max_seq = << sequence_number >>], missed |-> FALSE]
    ELSE IF sequence_number > ng.max_seq[1]
    THEN LET skipped == (ng.max_seq[1] + 1)..(sequence_number - 1)
         IN  [ nack |-> NackGenerator_truncate(
                            [ max_seq |-> << sequence_number >>,
                              missing |-> ng.missing \cup skipped ]),
               missed |-> skipped # {} ]
    ELSE [ nack |-> NackGenerator_truncate([ng EXCEPT !.missing = @ \ {sequence_number}]),
           missed |-> FALSE ]

\* add(packet): the generator afterwards and the value returned.
NackGenerator_add(ng, sequence_number) ==
    IF ng.max_seq = << >>
    THEN [nack |-> [ng EXCEPT !.max_seq = << sequence_number >>], missed |-> FALSE]
    ELSE IF uint16_gt(sequence_number, ng.max_seq[1])
    THEN LET skipped == NackSkipped(ng.max_seq[1], sequence_number)
         IN  [ nack |-> NackGenerator_truncate(
                            [ max_seq |-> << sequence_number >>,
                              missing |-> ng.missing \cup skipped ]),
               missed |-> skipped # {} ]
    ELSE [ nack |-> NackGenerator_truncate([ng EXCEPT !.missing = @ \ {sequence_number}]),
           missed |-> FALSE ]

\* The first packet's sequence number.
NackFirst == {0, 65534}

\* The distance of the next packet's sequence number from max_seq, modulo
\* 2^16: in sequence, gaps of 1, RTP_HISTORY_SIZE and RTP_HISTORY_SIZE + 1,
\* the widest forward jump 2^15 - 1; then packets that are not newer: 2^15,
\* a duplicate of max_seq, and late ones, the last two at the far end of
\* the history.
NackSteps ==
    { 1, 2, RTP_HISTORY_SIZE + 1, RTP_HISTORY_SIZE + 2, 32767,
      32768, 0, 65535, 65536 - RTP_HISTORY_SIZE, 65535 - RTP_HISTORY_SIZE }

NackInit ==
    /\ nack = NackGenerator_new
    /\ nack_last = [sequence_number |-> 0, before |-> NackGenerator_new, missed |-> FALSE]
    /\ nack_count = 0

nack_add(sequence_number) ==
    /\ nack_count < MaxNack + 1
    /\ LET r == NackGenerator_add(nack, sequence_number)
       IN  /\ nack' = r.nack
           /\ nack_last' = [sequence_number |-> sequence_number, before |-> nack,
                            missed |-> r.missed]
    /\ nack_count' = nack_count + 1

nack_first == nack_count = 0 /\ \E sequence_number \in NackFirst : nack_add(sequence_number)

nack_next ==
    /\ nack_count > 0
    /\ \E step \in NackSteps : nack_add(uint16_add(nack.max_seq[1], step))

(***************************************************************************)
(* stats.py, StreamStatistics on its own: add calls and reads of           *)
(* fraction_lost.                                                          *)
(*                                                                         *)
(*   stats        the StreamStatistics                                     *)
(*   stats_last   the last operation: "add" or "fraction_lost", the        *)
(*                packet's sequence number, the statistics before it, the  *)
(*                value a read returned and the exception it raised        *)
(*   stats_time   the wall clock, in milliseconds                          *)
(*   stats_trace  what the packets received so far amount to, counted      *)
(*                without the 16-bit wrap: the first sequence number       *)
(*                (base), the highest one (max), the number of packets     *)
(*                (received); whether every packet was ahead of all before *)
(*                it (in_order) and how many sequence numbers were skipped *)
(*                (skipped); whether every packet arrived as much later as *)
(*                its timestamp is later, modulo 2^32 (cadence), and       *)
(*                whether the timestamp has wrapped (ts_wrapped); max and  *)
(*                received at the last read of fraction_lost               *)
(*   stats_count  the number of operations                                 *)
(***************************************************************************)
VARIABLES stats, stats_last, stats_time, stats_trace, stats_count

stats_vars == << stats, stats_last, stats_time, stats_trace, stats_count >>

\* The first packet's sequence number and timestamp, the second timestamp
\* one packet before the 32-bit wrap.
StatsFirstSeq == {0, 65534}

StatsFirstTimestamp == {Wide(0), [h |-> 65535, l |-> 65536 - 160]}

\* Later packets: the distance of the sequence number from max_seq modulo
\* 2^16, the distance of the timestamp from the last one, and the time since
\* the last packet.  In order and on time; two sequence numbers skipped; 5 ms
\* late; a second packet of the same frame; the widest forward jump; then
\* packets that are not newer: 2^15 ahead, a duplicate, one behind.
StatsSteps ==
    { [seq |-> 1, ts |-> 160, ms |-> 20],
      [seq |-> 3, ts |-> 480, ms |-> 60],
      [seq |-> 1, ts |-> 160, ms |-> 25],
      [seq |-> 1, ts |-> 0, ms |-> 0],
      [seq |-> 32767, ts |-> 160, ms |-> 20],
      [seq |-> 32768, ts |-> 160, ms |-> 20],
      [seq |-> 0, ts |-> 0, ms |-> 20],
      [seq |-> 65535, ts |-> 160, ms |-> 20] }

\* A timestamp as the 32-bit header field holds it.
Wide32(a) == [h |-> a.h % 65536, l |-> a.l]

StatsClockRate == DEFAULT_CLOCK_RATE

\* The wall clock at the first packet: a millisecond whose arrival time is
\* the whole number of clock ticks, and one where it is a tick short, as it
\* is again 20 ms later.
StatsStartTimes == {1000, 1003}

StatsInit ==
    /\ stats = StreamStatistics_new(StatsClockRate)
    /\ stats_last = [op |-> None, seq |-> 0, before |-> StreamStatistics_new(StatsClockRate),
                     value |-> 0, raised |-> None]
    /\ stats_time \in StatsStartTimes
    /\ stats_trace = [ base |-> 0, max |-> 0, received |-> 0, in_order |-> TRUE, skipped |-> 0,
                       cadence |-> TRUE, ts_wrapped |-> FALSE,
                       read_max |-> 0, read_received |-> 0 ]
    /\ stats_count = 0

\* The statistics of a specification that leaves them alone.
StatsIdle == StatsInit /\ stats_time = 1000

stats_add_first(seq, timestamp) ==
    /\ stats.max_seq = << >>
    /\ stats_count < MaxStats + 1
    /\ stats' = StreamStatistics_add_at(stats, seq, timestamp,
                                        ArrivalTime(stats_time, stats.clockrate))
    /\ stats_last' = [op |-> "add", seq |-> seq, before |-> stats, value |-> 0, raised |-> None]
    /\ stats_trace' = [stats_trace EXCEPT !.base = seq, !.max = seq, !.received = 1,
                                          !.read_max = seq - 1]
    /\ stats_count' = stats_count + 1
    /\ UNCHANGED stats_time

stats_add(step) ==
    /\ stats.max_seq # << >>
    /\ stats_count < MaxStats + 1
    /\ LET seq       == uint16_add(stats.max_seq[1], step.seq)
           sum       == WideAdd(stats.last_timestamp[1], Wide(step.ts))
           timestamp == Wide32(sum)
           newer     == step.seq >= 1 /\ step.seq <= 32767
           now       == stats_time + step.ms
           elapsed   == ArrivalTime(now, stats.clockrate)
                            - ArrivalTime(stats_time, stats.clockrate)
       IN  /\ stats' = StreamStatistics_add_at(stats, seq, timestamp,
                                               ArrivalTime(now, stats.clockrate))
           /\ stats_last' = [op |-> "add", seq |-> seq, before |-> stats, value |-> 0,
                             raised |-> None]
           /\ stats_time' = now
           /\ stats_trace' =
                  [stats_trace EXCEPT
                      !.received = @ + 1,
                      !.max = IF newer THEN @ + step.seq ELSE @,
                      !.in_order = @ /\ newer,
                      !.skipped = IF newer THEN @ + step.seq - 1 ELSE @,
                      !.cadence = @ /\ elapsed = step.ts,
                      !.ts_wrapped = @ \/ timestamp # sum]
    /\ stats_count' = stats_count + 1

stats_fraction_lost ==
    /\ stats_count < MaxStats + 1
    /\ LET r == fraction_lost(stats)
       IN  /\ stats' = r.stats
           /\ stats_last' = [op |-> "fraction_lost", seq |-> 0, before |-> stats,
                             value |-> r.value, raised |-> r.raised]
           /\ stats_trace' = IF r.raised = None
                             THEN [stats_trace EXCEPT !.read_max = stats_trace.max,
                                                      !.read_received = stats_trace.received]
                             ELSE stats_trace
    /\ stats_count' = stats_count + 1
    /\ UNCHANGED stats_time

(***************************************************************************)
(* jitterbuffer.py, a JitterBuffer on its own: add calls.                  *)
(*                                                                         *)
(*   jbuf       the JitterBuffer                                           *)
(*   jbuf_last  the last add: the packet, the buffer before it, and what   *)
(*              add returned (pli_flag, frame), whether it reset the       *)
(*              window from behind, and the buffer with the packet placed  *)
(*   jbuf_log   the packets added so far, in the order of the calls        *)
(***************************************************************************)
VARIABLES jbuf, jbuf_last, jbuf_log

jitter_vars == << jbuf, jbuf_last, jbuf_log >>

\* The buffers constructed: capacity, prefetch, is_video, skip_audio_gaps.
JitterConfigs ==
    { JitterBuffer_new(4, 0, FALSE, FALSE), JitterBuffer_new(8, 2, FALSE, FALSE),
      JitterBuffer_new(4, 0, TRUE, FALSE),  JitterBuffer_new(8, 0, FALSE, TRUE),
      JitterBuffer_new(8, 2, FALSE, TRUE),  JitterBuffer_new(128, 0, TRUE, FALSE) }

JitterFirstSeq == {1, 65534}

JitterTimestamps == {1234, 1235}

\* Where a packet lies from the origin: inside the window, just beyond it,
\* far ahead, just behind, and behind by 16 windows and by one more than
\* that, for a window of 4 (64, 65) and of 8 (128, 129), and far behind;
\* for a window of 128 these are less than a window behind (64, 65), a
\* window behind and more (128, 129, 1999).
JitterOffsets ==
    {1, 2, 3, 4, 5, 9, 3000, 65535, 65536 - 64, 65536 - 65, 65536 - 128, 65536 - 129,
     65536 - 1999}

JitterPacket(sequence_number, timestamp) ==
    RtpPacket(0, 0, sequence_number, timestamp, 4661, << sequence_number % 256 >>)

JitterStart(jb) ==
    /\ jbuf = jb
    /\ jbuf_last = [packet |-> JitterPacket(0, 0), before |-> jb, pli_flag |-> FALSE,
                    frame |-> << >>, reset |-> FALSE, placed |-> jb]
    /\ jbuf_log = << >>

JitterInit == \E jb \in JitterConfigs : JitterStart(jb)

JitterIdle == JitterStart(JitterBuffer_new(JB_CAPACITY, JB_PREFETCH, FALSE, FALSE))

jitter_call(packet) ==
    /\ Len(jbuf_log) < MaxJitter + 1
    /\ LET r == JitterBuffer_add(jbuf, packet)
       IN  /\ jbuf' = r.jb
           /\ jbuf_last' = [packet |-> packet, before |-> jbuf, pli_flag |-> r.pli_flag,
                            frame |-> r.frame, reset |-> r.reset, placed |-> r.placed]
    /\ jbuf_log' = Append(jbuf_log, packet)

jitter_first ==
    /\ jbuf.origin = << >>
    /\ \E sequence_number \in JitterFirstSeq, timestamp \in JitterTimestamps :
           jitter_call(JitterPacket(sequence_number, timestamp))

jitter_next ==
    /\ jbuf.origin # << >>
    /\ \E offset \in JitterOffsets, timestamp \in JitterTimestamps :
           jitter_call(JitterPacket(uint16_add(jbuf.origin[1], offset), timestamp))

(***************************************************************************)
(* port_allocator.py: PortAllocator, used by several tasks of one event    *)
(* loop.                                                                   *)
(*                                                                         *)
(*   allocator   the PortAllocator: _min_port, _max_port, _allocated and   *)
(*               whether _lock is held                                     *)
(*   port_range  the port_range it was constructed with                    *)
(*   port_pc     where each task is: "idle", or inside allocate or release *)
(*               with the lock held                                        *)
(*   port_arg    the rtp_port of the release a task is in                  *)
(*   port_held   the RTP ports returned by allocate and not released since *)
(*   port_last   the last call that completed                              *)
(*   port_count  the calls completed                                       *)
(***************************************************************************)
VARIABLES allocator, port_range, port_pc, port_arg, port_held, port_last, port_count

port_vars == << allocator, port_range, port_pc, port_arg, port_held, port_last, port_count >>

PortAllocator_new(range) ==
    [ min_port  |-> IF range[1] % 2 # 0 THEN range[1] + 1 ELSE range[1],
      max_port  |-> range[2],
      allocated |-> {},
      locked    |-> FALSE ]

\* range(self._min_port, self._max_port, 2)
PortCandidates(pa) ==
    {port \in pa.min_port..(pa.max_port - 1) : (port - pa.min_port) % 2 = 0}

\* allocate without the test of _allocated.
PortAllocator_allocate_ignoring_set(pa, bindable) ==
    LET fit == {port \in PortCandidates(pa) : port \in bindable /\ port + 1 \in bindable}
    IN  IF fit = {}
        THEN [pa |-> pa, raised |-> "RuntimeError", value |-> << >>]
        ELSE LET port == CHOOSE port \in fit : \A other \in fit : port <= other
             IN  [ pa |-> [pa EXCEPT !.allocated = @ \cup {port}], raised |-> None,
                   value |-> << port, port + 1 >> ]

\* The body of allocate under the lock.  bindable is the set of ports the
\* operating system lets a socket bind at this moment; a pair is taken when
\* both of its ports bind.  The first such port not in _allocated is added
\* and returned with its successor; with none, RuntimeError.
PortAllocator_allocate(pa, bindable) ==
    LET fit == {port \in PortCandidates(pa) :
                    /\ port \notin pa.allocated
                    /\ port \in bindable /\ port + 1 \in bindable}
    IN  IF fit = {}
        THEN [pa |-> pa, raised |-> "RuntimeError", value |-> << >>]
        ELSE LET port == CHOOSE port \in fit : \A other \in fit : port <= other
             IN  [ pa |-> [pa EXCEPT !.allocated = @ \cup {port}], raised |-> None,
                   value |-> << port, port + 1 >> ]

\* The body of release under the lock.
PortAllocator_release(pa, rtp_port) == [pa EXCEPT !.allocated = @ \ {rtp_port}]

PortTasks == 1..2

PortRanges == { << 10000, 10006 >>, << 10001, 10006 >>, << 10001, 10002 >> }

\* The ports of the host the calls can meet.
HostPorts == 10000..10006

\* What the operating system lets bind: everything, or all but a pair in
\* use by another program.
Bindable == {HostPorts} \cup {HostPorts \ {port} : port \in {10000, 10003}}

PortInit ==
    /\ port_range \in PortRanges
    /\ allocator = PortAllocator_new(port_range)
    /\ port_pc = [t \in PortTasks |-> "idle"]
    /\ port_arg = [t \in PortTasks |-> 0]
    /\ port_held = {}
    /\ port_last = [op |-> None, task |-> 0, raised |-> None, value |-> << >>, held |-> {}]
    /\ port_count = 0

PortIdle == PortInit /\ port_range = << 10000, 10006 >>

\* async with self._lock, entered by allocate: the task goes on once the
\* lock is free, and holds it.
allocate_enter(t) ==
    /\ port_count < MaxPortCalls
    /\ port_pc[t] = "idle" /\ ~allocator.locked
    /\ allocator' = [allocator EXCEPT !.locked = TRUE]
    /\ port_pc' = [port_pc EXCEPT ![t] = "allocate"]
    /\ UNCHANGED << port_range, port_arg, port_held, port_last, port_count >>

\* The rest of allocate: the loop over the ports, and the lock released on
\* the way out.
allocate_body(t, bindable) ==
    /\ port_pc[t] = "allocate"
    /\ LET r == PortAllocator_allocate(allocator, bindable)
       IN  /\ allocator' = [r.pa EXCEPT !.locked = FALSE]
           /\ port_last' = [op |-> "allocate", task |-> t, raised |-> r.raised,
                            value |-> r.value, held |-> port_held]
           /\ port_held' = IF r.raised = None THEN port_held \cup {r.value[1]} ELSE port_held
    /\ port_pc' = [port_pc EXCEPT ![t] = "idle"]
    /\ port_count' = port_count + 1
    /\ UNCHANGED << port_range, port_arg >>

\* async with self._lock, entered by release(rtp_port).
release_enter(t, rtp_port) ==
    /\ port_count < MaxPortCalls
    /\ port_pc[t] = "idle" /\ ~allocator.locked
    /\ allocator' = [allocator EXCEPT !.locked = TRUE]
    /\ port_pc' = [port_pc EXCEPT ![t] = "release"]
    /\ port_arg' = [port_arg EXCEPT ![t] = rtp_port]
    /\ UNCHANGED << port_range, port_held, port_last, port_count >>

release_body(t) ==
    /\ port_pc[t] = "release"
    /\ allocator' = [PortAllocator_release(allocator, port_arg[t]) EXCEPT !.locked = FALSE]
    /\ port_last' = [op |-> "release", task |-> t, raised |-> None,
                     value |-> << port_arg[t] >>, held |-> port_held]
    /\ port_held' = port_held \ {port_arg[t]}
    /\ port_pc' = [port_pc EXCEPT ![t] = "idle"]
    /\ port_count' = port_count + 1
    /\ UNCHANGED << port_range, port_arg >>

(***************************************************************************)
(* packet.py, the cumulative-lost field of a report block taken through    *)
(* its codec in both directions.                                           *)
(*                                                                         *)
(*   lost_in    what the codec is given: a count (kind "count") or three   *)
(*              bytes off the wire (kind "bytes")                          *)
(*   lost_out   << >> until the codec has run; then the three bytes and    *)
(*              the count it produced                                      *)
(***************************************************************************)
VARIABLES lost_in, lost_out

lost_vars == << lost_in, lost_out >>

\* Counts around every byte boundary of the 24-bit field, from one below
\* the least value it holds to one above the greatest.
LostCounts ==
    (-8388609 .. -8388609 + LostWindow) \cup (-65536 - LostWindow .. -65536 + LostWindow)
    \cup (-256 - LostWindow .. -256 + LostWindow) \cup (-LostWindow .. LostWindow)
    \cup (256 - LostWindow .. 256 + LostWindow) \cup (65536 - LostWindow .. 65536 + LostWindow)
    \cup (8388608 - LostWindow .. 8388608)

LostByteValues == {0, 1, 127, 128, 255}

LostStrings == {<< a, b, c >> : a \in LostByteValues, b \in LostByteValues, c \in LostByteValues}

LostStart(input) == lost_in = input /\ lost_out = << >>

LostInit ==
    \/ \E n \in LostCounts : LostStart([kind |-> "count", count |-> n, bytes |-> << >>])
    \/ \E x \in LostStrings : LostStart([kind |-> "bytes", count |-> 0, bytes |-> x])

LostIdle == LostStart([kind |-> "count", count |-> 0, bytes |-> << >>])

\* unpack_packets_lost(pack_packets_lost(n))
pack_then_unpack ==
    /\ lost_in.kind = "count" /\ lost_out = << >>
    /\ lost_out' = << [ bytes |-> pack_packets_lost(lost_in.count),
                        count |-> unpack_packets_lost(pack_packets_lost(lost_in.count)) ] >>
    /\ UNCHANGED lost_in

\* pack_packets_lost(unpack_packets_lost(x))
unpack_then_pack ==
    /\ lost_in.kind = "bytes" /\ lost_out = << >>
    /\ lost_out' = << [ count |-> unpack_packets_lost(lost_in.bytes),
                        bytes |-> pack_packets_lost(unpack_packets_lost(lost_in.bytes)) ] >>
    /\ UNCHANGED lost_in

(***************************************************************************)
(* packet.py, RTCP packets serialized into one compound datagram and       *)
(* parsed back.                                                            *)
(*                                                                         *)
(*   rtcp_in      the packets q1..qn                                       *)
(*   rtcp_wire    << >> until they are serialized; then the datagram       *)
(*   rtcp_parsed  << >> until the datagram is parsed; then what            *)
(*                RtcpPacket.parse returned                                *)
(***************************************************************************)
VARIABLES rtcp_in, rtcp_wire, rtcp_parsed

compound_vars == << rtcp_in, rtcp_wire, rtcp_parsed >>

SampleSenderInfo == RtcpSenderInfo(<< 1000, 32768 >>, 1722342718, 269, 13557)

SampleReports ==
    << RtcpReceiverInfo(1200895919, 0, 0, 246, 127, 0, 0),
       RtcpReceiverInfo(4660, 255, -8388608, 65536 + 5, 1906, 1, 2),
       RtcpReceiverInfo(4661, 128, 8388607, 630, 0, 65536, 65535),
       RtcpReceiverInfo(4662, 1, -1, 0, 1, 0, 0) >>

\* "aiortp", and values of one and three bytes
SampleChunks ==
    << RtcpSourceInfo(1831097322, << << SDES_CNAME, DEFAULT_CNAME >> >>),
       RtcpSourceInfo(4660, << << SDES_CNAME, << 97 >> >> >>),
       RtcpSourceInfo(4661, << << SDES_CNAME, << 97, 98, 99 >> >>, << 2, << 100 >> >> >>),
       RtcpSourceInfo(4662, << >>) >>

\* Packets of every variant: with no, one and several report blocks,
\* chunks and sources, cumulative-lost fields at both ends of their range,
\* SDES values of every length mod 4, NACK lists that fill one bit mask
\* and run over into a second pair.
RtcpSamples ==
    { [RtcpSrPacket(1831097322, SampleSenderInfo) EXCEPT !.reports = SubSeq(SampleReports, 1, n)]
        : n \in {0, 1} }
    \cup { RtcpRrPacket(817267719, SubSeq(SampleReports, m, n))
             : m \in {2}, n \in {1, 2, 4} }
    \cup { RtcpSdesPacket(SubSeq(SampleChunks, m, n)) : m \in {1, 2}, n \in {1, 3, 4} }
    \cup { RtcpByePacket(SubSeq(<< 12345, 2147483647 >>, 1, n)) : n \in 0..2 }
    \cup { RtcpRtpfbPacket(1, 4660, 4661, lost)
             : lost \in { << >>, << 12 >>, << 12, 13, 28, 29, 45, 65535 >>, << 0, 16, 17 >> } }
    \cup { RtcpPsfbPacket(1, 4660, 4661, << >>), RtcpPsfbPacket(15, 4660, 4661, << 82, 69, 77, 66 >>) }

\* q1..qn, for every n from 1 to MaxCompound
RtcpCompounds == UNION { [1..n -> RtcpSamples] : n \in 1..MaxCompound }

CompoundStart(packets) == rtcp_in = packets /\ rtcp_wire = << >> /\ rtcp_parsed = << >>

CompoundInit == \E packets \in RtcpCompounds : CompoundStart(packets)

CompoundIdle == CompoundStart(<< RtcpByePacket(<< >>) >>)

RECURSIVE Compound_bytes(_)
Compound_bytes(packets) ==
    IF packets = << >> THEN << >>
    ELSE RtcpPacket_bytes(Head(packets)) \o Compound_bytes(Tail(packets))

\* bytes(q1) + ... + bytes(qn)
rtcp_serialize ==
    /\ rtcp_wire = << >>
    /\ rtcp_wire' = << Compound_bytes(rtcp_in) >>
    /\ UNCHANGED << rtcp_in, rtcp_parsed >>

\* RtcpPacket.parse(data)
rtcp_parse ==
    /\ rtcp_wire # << >> /\ rtcp_parsed = << >>
    /\ rtcp_parsed' = << RtcpParse(rtcp_wire[1]) >>
    /\ UNCHANGED << rtcp_in, rtcp_wire >>

codec_vars == << lost_vars, compound_vars >>

(***************************************************************************)
(* session.py, the on_dtmf slot of an RTPSession and the DtmfReceiver the  *)
(* _dtmf_receiver property builds from it.                                 *)
(*                                                                         *)
(*   on_dtmf_slot  the callback assigned to on_dtmf: None (<< >>) after    *)
(*                 create(), or the callback the application assigned      *)
(*   dtmf_bound    the _on_dtmf of the DtmfReceiver held in                *)
(*                 _dtmf_receiver_instance: the value on_dtmf had when the *)
(*                 property was first read; << >> while there is none      *)
(*   dtmf_to       the calls made so far: the callback that was invoked,   *)
(*                 the callback on_dtmf held at that moment, and the RTP   *)
(*                 timestamp of the packet                                 *)
(*   slot_count    the number of assignments to on_dtmf                    *)
(***************************************************************************)
VARIABLES on_dtmf_slot, dtmf_bound, dtmf_to, slot_count

slot_vars == << on_dtmf_slot, dtmf_bound, dtmf_to, slot_count >>

\* The callbacks an application assigns; None removes the callback.
Callbacks == {<< >>, << "first" >>, << "second" >>}

\* Progress and end packets of two events.
SlotDatagrams ==
    { RtpSerialize(RtpPacket(DEFAULT_DTMF_PT, 0, 200, ts, 4661, DtmfEvent_serialize(ev))) :
          ts \in RxTimestamps,
          ev \in {DtmfEvent(5, FALSE, DEFAULT_VOLUME, 160), DtmfEvent(5, TRUE, DEFAULT_VOLUME, 320)} }

SlotInit ==
    /\ on_dtmf_slot = << >>
    /\ dtmf_bound = << >>
    /\ dtmf_to = << >>
    /\ slot_count = 0

SlotIdle == SlotInit

\* session.on_dtmf = callback
set_on_dtmf(callback) ==
    /\ slot_count < MaxAssign
    /\ on_dtmf_slot' = callback
    /\ recv' = [recv EXCEPT !.on_dtmf = (callback # << >>)]
    /\ slot_count' = slot_count + 1
    /\ UNCHANGED << dtmf_bound, dtmf_to, recv_last, recv_count, time_ms, rx_next, rx_media,
                    rx_reset, jb_frames >>

\* The RTP transport hands a telephone-event datagram to _handle_rtp: the
\* first one makes the _dtmf_receiver property build its DtmfReceiver, or
\* None, from on_dtmf as it is then; the calls go to that receiver's _on_dtmf.
dtmf_received(data) ==
    /\ recv_count < MaxRecv
    /\ rtp_datagram(data)
    /\ LET first_read == ~recv.dtmf_receiver_instance.created
           bound      == IF first_read THEN on_dtmf_slot ELSE dtmf_bound
           calls      == Len(recv'.dtmf_calls) - Len(recv.dtmf_calls)
       IN  /\ dtmf_bound' = bound
           /\ dtmf_to' = dtmf_to \o [i \in 1..calls |->
                                         [ callback |-> bound, slot |-> on_dtmf_slot,
                                           timestamp |-> RtpParse(data).timestamp ]]
    /\ UNCHANGED << on_dtmf_slot, slot_count >>

CodecIdle == LostIdle /\ CompoundIdle

(***************************************************************************)
(* The specifications.  Each takes one part of the program through its     *)
(* operations and holds the other parts still.                             *)
(***************************************************************************)
vars == << session_vars, tx_vars, rx_vars, recv_vars, stun_vars, nack_vars, stats_vars, jitter_vars, port_vars, codec_vars, slot_vars >>

SessionIdle ==
    SessionInit /\ sender.sequence_number = 7 /\ session.remote_addr = << "127.0.0.1", 5004 >>

TxIdle ==
    TxInit /\ dtmf_tx.clock_rate = DEFAULT_CLOCK_RATE /\ dtmf_tx.sender.sequence_number = 7

RecvIdle == recv = RecvSession("L16", TRUE, TRUE) /\ RecvGhostInit

\* The session's lifecycle: sends, the RTCP task, close().
Init == SessionInit /\ TxIdle /\ RxInit /\ RecvIdle /\ StunInit /\ NackInit /\ StatsIdle /\ JitterIdle /\ PortIdle /\ CodecIdle /\ SlotIdle

SessionOnly == UNCHANGED << tx_vars, rx_vars, recv_vars, stun_vars, nack_vars, stats_vars, jitter_vars, port_vars, codec_vars, slot_vars >>

Next ==
    \/ /\ \E payload \in AudioPayloads, timestamp \in AudioTimestamps :
              send_audio(payload, timestamp)
       /\ SessionOnly
    \/ /\ \E pcm \in PcmInputs, timestamp \in AudioTimestamps :
              send_audio_pcm(pcm, timestamp)
       /\ SessionOnly
    \/ /\ \E digit \in Digits, duration_ms \in DtmfDurations, timestamp \in AudioTimestamps :
              send_dtmf(digit, duration_ms, timestamp)
       /\ SessionOnly
    \/ sleep_elapsed /\ SessionOnly
    \/ (\E ntp_time \in NtpTimes : _run_rtcp(ntp_time)) /\ SessionOnly
    \/ (\E k \in Closers : close(k)) /\ SessionOnly
    \/ (\E k \in Closers : close_after_await(k)) /\ SessionOnly
    \/ (\E k \in Closers : close_after_sleep(k)) /\ SessionOnly
    \/ connection_lost /\ SessionOnly
    \/ (\E addr \in UpdateAddrs : update_remote(addr)) /\ SessionOnly

Spec == Init /\ [][Next]_vars

\* The same, on an event loop that keeps running: a sleep that is not
\* cancelled comes to its end, and a task that is ready to run is run.
SpecLive ==
    /\ Init /\ [][Next]_vars
    /\ WF_vars(sleep_elapsed /\ SessionOnly)
    /\ WF_vars((\E ntp_time \in NtpTimes : _run_rtcp(ntp_time)) /\ SessionOnly)

\* send_digit calls on a DtmfSender.
InitDtmfTx == SessionIdle /\ TxInit /\ RxInit /\ RecvIdle /\ StunInit /\ NackInit /\ StatsIdle /\ JitterIdle /\ PortIdle /\ CodecIdle /\ SlotIdle

NextDtmfTx ==
    /\ \E digit \in TxDigits, duration_ms \in TxDurations, timestamp \in TxTimestamps :
           send_digit_call(digit, duration_ms, timestamp)
    /\ UNCHANGED << session_vars, rx_vars, recv_vars, stun_vars, nack_vars, stats_vars, jitter_vars, port_vars, codec_vars, slot_vars >>

SpecDtmfTx == InitDtmfTx /\ [][NextDtmfTx]_vars

\* Telephone-event packets handed to a DtmfReceiver.
InitDtmfRx == SessionIdle /\ TxIdle /\ RxInit /\ RecvIdle /\ StunInit /\ NackInit /\ StatsIdle /\ JitterIdle /\ PortIdle /\ CodecIdle /\ SlotIdle

NextDtmfRx ==
    /\ \E packet \in RxPackets : dtmf_packet(packet)
    /\ UNCHANGED << session_vars, tx_vars, recv_vars, stun_vars, nack_vars, stats_vars, jitter_vars, port_vars, codec_vars, slot_vars >>

SpecDtmfRx == InitDtmfRx /\ [][NextDtmfRx]_vars

RecvOnly == UNCHANGED << session_vars, tx_vars, rx_vars, stun_vars, nack_vars, stats_vars, jitter_vars, port_vars, codec_vars, slot_vars >>

\* A media stream received by a session with on_audio set, with and without
\* a codec.
InitAudio ==
    /\ SessionIdle /\ TxIdle /\ RxInit /\ RecvGhostInit /\ StunInit /\ NackInit /\ StatsIdle /\ JitterIdle /\ PortIdle /\ CodecIdle /\ SlotIdle
    /\ recv \in {RecvSession(codec, TRUE, FALSE) : codec \in {None, "L16"}}

NextAudio == media_datagram /\ RecvOnly

SpecAudio == InitAudio /\ [][NextAudio]_vars

\* RTP and RTCP datagrams of every kind received by a session, with and
\* without on_dtmf set.
InitRecv ==
    /\ SessionIdle /\ TxIdle /\ RxInit /\ RecvGhostInit /\ StunInit /\ NackInit /\ StatsIdle /\ JitterIdle /\ PortIdle /\ CodecIdle /\ SlotIdle
    /\ recv \in {RecvSession("L16", TRUE, on_dtmf) : on_dtmf \in BOOLEAN}

NextRecv ==
    \/ rtp_received /\ RecvOnly
    \/ rtcp_received /\ RecvOnly

SpecRecv == InitRecv /\ [][NextRecv]_vars

\* A session that receives while it is being closed: the RTCP task, close()
\* in its three steps, and the RTP socket, which hands datagrams to
\* _handle_rtp until close() has closed the transport.
rtp_received_while_open ==
    /\ rtp_transport.open
    /\ rtp_received

InitClosing ==
    /\ SessionIdle /\ TxIdle /\ RxInit /\ RecvIdle /\ StunInit /\ NackInit /\ StatsIdle /\ JitterIdle /\ PortIdle /\ CodecIdle /\ SlotIdle

NextClosing ==
    \/ sleep_elapsed /\ SessionOnly
    \/ (\E ntp_time \in NtpTimes : _run_rtcp(ntp_time)) /\ SessionOnly
    \/ (\E k \in Closers : close(k)) /\ SessionOnly
    \/ (\E k \in Closers : close_after_await(k)) /\ SessionOnly
    \/ (\E k \in Closers : close_after_sleep(k)) /\ SessionOnly
    \/ connection_lost /\ SessionOnly
    \/ rtp_received_while_open /\ RecvOnly

SpecClosing == InitClosing /\ [][NextClosing]_vars

\* A session whose application assigns on_dtmf while telephone-event
\* packets arrive.
InitOnDtmf ==
    /\ SessionIdle /\ TxIdle /\ RxInit /\ RecvGhostInit /\ StunInit /\ NackInit /\ StatsIdle /\ JitterIdle /\ PortIdle /\ CodecIdle /\ SlotInit
    /\ recv = RecvSession("L16", TRUE, FALSE)

OnDtmfOnly == UNCHANGED << session_vars, tx_vars, rx_vars, stun_vars, nack_vars, stats_vars, jitter_vars, port_vars, codec_vars >>

NextOnDtmf ==
    \/ (\E callback \in Callbacks : set_on_dtmf(callback)) /\ OnDtmfOnly
    \/ (\E data \in SlotDatagrams : dtmf_received(data)) /\ OnDtmfOnly

SpecOnDtmf == InitOnDtmf /\ [][NextOnDtmf]_vars

StunOnly == UNCHANGED << session_vars, tx_vars, rx_vars, recv_vars, nack_vars, stats_vars, jitter_vars, port_vars, codec_vars, slot_vars >>

\* Datagrams between two transports that answer STUN.
InitStun == SessionIdle /\ TxIdle /\ RxInit /\ RecvIdle /\ StunInit /\ NackInit /\ StatsIdle /\ JitterIdle /\ PortIdle /\ CodecIdle /\ SlotIdle

NextStun ==
    \/ (\E p \in StunPeers, data \in StunDatagrams : stun_send(p, data)) /\ StunOnly
    \/ (\E p \in StunPeers : stun_deliver(p)) /\ StunOnly

SpecStun == InitStun /\ [][NextStun]_vars

NackOnly ==
    UNCHANGED << session_vars, tx_vars, rx_vars, recv_vars, stun_vars, stats_vars, jitter_vars,
                 port_vars, codec_vars, slot_vars >>

\* add calls on a NackGenerator.
InitNack == SessionIdle /\ TxIdle /\ RxInit /\ RecvIdle /\ StunInit /\ NackInit /\ StatsIdle /\ JitterIdle /\ PortIdle /\ CodecIdle /\ SlotIdle

NextNack ==
    \/ nack_first /\ NackOnly
    \/ nack_next /\ NackOnly

SpecNack == InitNack /\ [][NextNack]_vars

StatsOnly == UNCHANGED << session_vars, tx_vars, rx_vars, recv_vars, stun_vars, nack_vars, jitter_vars, port_vars, codec_vars, slot_vars >>

\* add calls and fraction_lost reads on a StreamStatistics.
InitStats == SessionIdle /\ TxIdle /\ RxInit /\ RecvIdle /\ StunInit /\ NackInit /\ StatsInit /\ JitterIdle /\ PortIdle /\ CodecIdle /\ SlotIdle

NextStats ==
    \/ /\ \E seq \in StatsFirstSeq, timestamp \in StatsFirstTimestamp :
              stats_add_first(seq, timestamp)
       /\ StatsOnly
    \/ (\E step \in StatsSteps : stats_add(step)) /\ StatsOnly
    \/ stats_fraction_lost /\ StatsOnly

SpecStats == InitStats /\ [][NextStats]_vars

JitterOnly ==
    UNCHANGED << session_vars, tx_vars, rx_vars, recv_vars, stun_vars, nack_vars, stats_vars,
                 port_vars, codec_vars, slot_vars >>

\* add calls on a JitterBuffer, in audio and video mode, with and without
\* prefetch and skip_audio_gaps.
InitJitter ==
    /\ SessionIdle /\ TxIdle /\ RxInit /\ RecvIdle /\ StunInit /\ NackInit /\ StatsIdle
    /\ JitterInit /\ PortIdle /\ CodecIdle /\ SlotIdle

NextJitter ==
    \/ jitter_first /\ JitterOnly
    \/ jitter_next /\ JitterOnly

SpecJitter == InitJitter /\ [][NextJitter]_vars

PortOnly ==
    UNCHANGED << session_vars, tx_vars, rx_vars, recv_vars, stun_vars, nack_vars, stats_vars,
                 jitter_vars, codec_vars, slot_vars >>

\* allocate and release calls of two tasks on one PortAllocator.
InitPorts ==
    /\ SessionIdle /\ TxIdle /\ RxInit /\ RecvIdle /\ StunInit /\ NackInit /\ StatsIdle
    /\ JitterIdle /\ PortInit /\ CodecIdle /\ SlotIdle

NextPorts ==
    \/ (\E t \in PortTasks : allocate_enter(t)) /\ PortOnly
    \/ (\E t \in PortTasks, bindable \in Bindable : allocate_body(t, bindable)) /\ PortOnly
    \/ (\E t \in PortTasks, rtp_port \in HostPorts : release_enter(t, rtp_port)) /\ PortOnly
    \/ (\E t \in PortTasks : release_body(t)) /\ PortOnly

SpecPorts == InitPorts /\ [][NextPorts]_vars

LostOnly ==
    UNCHANGED << session_vars, tx_vars, rx_vars, recv_vars, stun_vars, nack_vars, stats_vars,
                 jitter_vars, port_vars, compound_vars, slot_vars >>

\* The cumulative-lost codec on counts and on 3-byte strings.
InitLost ==
    /\ SessionIdle /\ TxIdle /\ RxInit /\ RecvIdle /\ StunInit /\ NackInit /\ StatsIdle
    /\ JitterIdle /\ PortIdle /\ LostInit /\ CompoundIdle /\ SlotIdle

NextLost ==
    \/ pack_then_unpack /\ LostOnly
    \/ unpack_then_pack /\ LostOnly

SpecLost == InitLost /\ [][NextLost]_vars

CompoundOnly ==
    UNCHANGED << session_vars, tx_vars, rx_vars, recv_vars, stun_vars, nack_vars, stats_vars,
                 jitter_vars, port_vars, lost_vars, slot_vars >>

\* RTCP packets of every variant through bytes() and RtcpPacket.parse.
InitCompound ==
    /\ SessionIdle /\ TxIdle /\ RxInit /\ RecvIdle /\ StunInit /\ NackInit /\ StatsIdle
    /\ JitterIdle /\ PortIdle /\ LostIdle /\ CompoundInit /\ SlotIdle

NextCompound ==
    \/ rtcp_serialize /\ CompoundOnly
    \/ rtcp_parse /\ CompoundOnly

SpecCompound == InitCompound /\ [][NextCompound]_vars

(***************************************************************************)
(* Reading the RTCP wire.                                                  *)
(***************************************************************************)
\* The packet type of the first sub-packet of a datagram this session sent.
IsBye(data) == Len(data) >= RTCP_HEADER_LENGTH /\ data[2] = RTCP_BYE

IsSr(data) == Len(data) >= RTCP_HEADER_LENGTH /\ data[2] = RTCP_SR

ByeIndices(t) == {i \in DOMAIN t.sent : IsBye(t.sent[i])}

SrIndices(t) == {i \in DOMAIN t.sent : IsSr(t.sent[i])}

NumBye(t) == Cardinality(ByeIndices(t))

NumSr(t) == Cardinality(SrIndices(t))

(***************************************************************************)
(* C1.  However many close() calls there are, one after another or         *)
(* overlapping, at most one BYE is ever sent and each transport is closed  *)
(* at most once, by the call that set _closed; when that call has run to   *)
(* its end exactly one BYE has been sent and both transports have been     *)
(* closed once.  Every call made once _closed is set returns at once,      *)
(* raises nothing and changes nothing of the session.                      *)
(***************************************************************************)
C1_OneByeOneClose ==
    /\ NumBye(rtcp_transport) <= 1
    /\ rtp_transport.close_calls <= 1
    /\ rtcp_transport.close_calls <= 1
    /\ \A k \in Closers : k # first_closer => close_pc[k] \in {"idle", "done"}
    /\ rtp_transport.close_calls = 1 => rtp_transport.closed_by = first_closer
    /\ rtcp_transport.close_calls = 1 => rtcp_transport.closed_by = first_closer
    /\ (first_closer # 0 /\ close_pc[first_closer] = "done") =>
           /\ NumBye(rtcp_transport) = 1
           /\ rtp_transport.close_calls = 1 /\ ~rtp_transport.open
           /\ rtcp_transport.close_calls = 1 /\ ~rtcp_transport.open

C1_LaterCallDoesNothing ==
    \A k \in Closers :
        (closed /\ close_pc[k] = "idle" /\ close_pc'[k] # "idle") =>
            /\ close_pc'[k] = "done"
            /\ result'.raised = None /\ result'.sent = 0
            /\ UNCHANGED << session, closed, rtcp_task, first_closer, rtp_transport,
                            rtcp_transport, sender, timer_fires >>

C1_CloseIdempotent == []C1_OneByeOneClose /\ [][C1_LaterCallDoesNothing]_vars

\* A second call has returned while the first is suspended in its yield.
C1_Witness ==
    \E k, j \in Closers :
        /\ k # j /\ close_pc[k] = "yield" /\ close_pc[j] = "done"
        /\ NumBye(rtcp_transport) = 1

(***************************************************************************)
(* C2.  Once _closed is set, a send_audio or send_dtmf call hands no       *)
(* datagram to a transport, raises nothing (not even for an invalid        *)
(* digit) and leaves the sender's sequence number, packets_sent and        *)
(* octets_sent as they were.                                               *)
(***************************************************************************)
C2_SendAfterCloseDropped ==
    [][ (closed /\ result'.op \in {"send_audio", "send_dtmf"}) =>
            /\ result'.raised = None
            /\ rtp_transport' = rtp_transport
            /\ rtcp_transport' = rtcp_transport
            /\ sender' = sender ]_vars

\* A send call made while close() is still under way (state Closing).
C2_Witness ==
    /\ closed /\ rtp_transport.open
    /\ result.op \in {"send_audio", "send_dtmf"}
    /\ sender.packets_sent > 0

(***************************************************************************)
(* C3.  In close(), the BYE with the local SSRC is handed to the RTCP      *)
(* transport while both transports are still open, close() then suspends   *)
(* once (its yield), and only the resumption after that yield closes the   *)
(* transports: a closed transport implies the BYE was sent before.         *)
(***************************************************************************)
C3_ByeOnWire ==
    (~rtcp_transport.open \/ ~rtp_transport.open) =>
        /\ NumBye(rtcp_transport) = 1
        /\ LET bye == RtcpParse(rtcp_transport.sent[Len(rtcp_transport.sent)])
           IN  bye.ok /\ bye.packets = << [ok |-> TRUE, type |-> "BYE",
                                           sources |-> << session.ssrc >>] >>

C3_YieldBetween ==
    /\ NumBye(rtcp_transport') > NumBye(rtcp_transport) =>
           /\ rtcp_transport'.open /\ rtp_transport'.open
           /\ \E k \in Closers : close_pc[k] # "yield" /\ close_pc'[k] = "yield"
    /\ (rtcp_transport.open /\ ~rtcp_transport'.open) \/ (rtp_transport.open /\ ~rtp_transport'.open) =>
           /\ NumBye(rtcp_transport) = 1
           /\ \E k \in Closers : close_pc[k] = "yield" /\ close_pc'[k] = "done"

C3_ByeBeforeClose == []C3_ByeOnWire /\ [][C3_YieldBetween]_vars

C3_Witness ==
    /\ ~rtcp_transport.open /\ ~rtp_transport.open
    /\ NumBye(rtcp_transport) = 1

(***************************************************************************)
(* C4.  From the moment _closed is set the RTCP task sends no further      *)
(* SR/SDES compound, also when its timer had already expired before        *)
(* close() cancelled it; no SR follows the BYE on the wire.                *)
(***************************************************************************)
C4_NoSrOnceClosed == closed => NumSr(rtcp_transport') = NumSr(rtcp_transport)

C4_NoSrAfterBye ==
    \A i \in ByeIndices(rtcp_transport), j \in SrIndices(rtcp_transport) : j < i

C4_NoSrAfterClose == [][C4_NoSrOnceClosed]_vars /\ []C4_NoSrAfterBye

\* The timer expired, close() then cancelled the task before it resumed,
\* and the task ended without sending; an SR had been sent earlier.
C4_Witness ==
    /\ closed
    /\ result.op = "_run_rtcp cancelled, timer expired"
    /\ NumSr(rtcp_transport) >= 1

(***************************************************************************)
(* C5.  As claimed: for any received media packets, whatever their         *)
(* timestamps, the RTP timestamps passed to successive on_audio calls are  *)
(* strictly increasing.                                                    *)
(***************************************************************************)
Increasing(calls) ==
    \A i \in 1..(Len(calls) - 1) : calls[i].timestamp < calls[i + 1].timestamp

C5_TimestampsIncrease == Increasing(recv.audio_calls)

TimestampsFollowSequence ==
    \A p \in rx_media, q \in rx_media :
        /\ Unwrapped(p[1]) < Unwrapped(q[1]) => p[2] < q[2]
        /\ p[1] = q[1] => p[2] = q[2]

(***************************************************************************)
(* C5, amended.  Frames are emitted in sequence-number order: when the     *)
(* timestamps of the received media packets strictly increase with their   *)
(* sequence numbers and no packet has reset the window from behind, the    *)
(* RTP timestamps passed to successive on_audio calls are strictly         *)
(* increasing, whatever the arrival order, loss or duplication.            *)
(***************************************************************************)
C5_IncreaseInSequenceOrder ==
    (TimestampsFollowSequence /\ ~rx_reset) => Increasing(recv.audio_calls)

\* Two frames have been delivered from a stream of which a packet arrived
\* twice and the packets did not arrive at their own pace.
C5_Witness ==
    /\ TimestampsFollowSequence /\ ~rx_reset
    /\ Len(recv.audio_calls) >= 2
    /\ recv.stream_stats # << >>
    /\ recv.stream_stats[1].packets_received > Cardinality(rx_media)
    /\ recv.stream_stats[1].jitter_q4 # Wide(0)

(***************************************************************************)
(* C6.  A datagram that fails to parse as RTP (in _handle_rtp) or as RTCP  *)
(* (in _handle_rtcp) makes the handler return normally, with no callback   *)
(* invoked and the stream statistics, the jitter buffer, the DTMF receiver *)
(* and the last-SR fields as they were.                                    *)
(***************************************************************************)
FailsToParse(last) ==
    \/ last.op = "_handle_rtp" /\ ~RtpParse(last.data).ok
    \/ last.op = "_handle_rtcp" /\ ~RtcpParse(last.data).ok

C6_Dropped ==
    (recv_count' = recv_count + 1 /\ FailsToParse(recv_last')) =>
        /\ recv'.raised = None
        /\ recv'.audio_calls = recv.audio_calls /\ recv'.dtmf_calls = recv.dtmf_calls
        /\ recv'.stream_stats = recv.stream_stats
        /\ recv'.jitter_buffer = recv.jitter_buffer
        /\ recv'.dtmf_receiver_instance = recv.dtmf_receiver_instance
        /\ recv'.last_sr_ntp = recv.last_sr_ntp /\ recv'.last_sr_rtp_ts = recv.last_sr_rtp_ts

C6_ParseFailureDropped == [][C6_Dropped]_vars

\* A compound RTCP datagram whose sender report is followed by a truncated
\* sub-packet has been dropped by a session that has statistics, a buffered
\* packet, a DTMF event in progress and an earlier sender report.
C6_Witness ==
    /\ recv_last.op = "_handle_rtcp" /\ ~RtcpParse(recv_last.data).ok
    /\ IsSr(recv_last.data)
    /\ recv.last_sr_ntp = << << 1000, 32768 >> >>
    /\ recv.stream_stats # << >>
    /\ recv.dtmf_receiver_instance.receiver # << >>
    /\ recv.dtmf_receiver_instance.receiver[1].current_event # << >>

(***************************************************************************)
(* C7.  As claimed: an RTP packet of the DTMF payload type whose payload   *)
(* is shorter than 4 bytes is dropped: no error leaves _handle_rtp,        *)
(* on_dtmf is not invoked, and the DTMF receiver's current event,          *)
(* timestamp and end_seen are unchanged.                                   *)
(***************************************************************************)
ShortDtmf(last) ==
    /\ last.op = "_handle_rtp"
    /\ RtpParse(last.data).ok
    /\ RtpParse(last.data).payload_type = recv.dtmf_payload_type
    /\ Len(RtpParse(last.data).payload) < 4

C7_Dropped ==
    (recv_count' = recv_count + 1 /\ ShortDtmf(recv_last')) =>
        /\ recv'.raised = None
        /\ recv'.dtmf_calls = recv.dtmf_calls
        /\ recv'.dtmf_receiver_instance.receiver = recv.dtmf_receiver_instance.receiver

C7_ShortDtmfDropped == [][C7_Dropped]_vars

\* What the code does keep of it: the callback is not invoked.
ShortDtmf_NoCallback ==
    [][(recv_count' = recv_count + 1 /\ ShortDtmf(recv_last')) =>
           recv'.dtmf_calls = recv.dtmf_calls]_vars

(***************************************************************************)
(* C8.  When the codec's decode raises on a frame the jitter buffer        *)
(* emitted, _handle_rtp returns normally and does not call on_audio for    *)
(* that frame; the frames emitted afterwards are decoded and delivered as  *)
(* usual, so that on_audio has received exactly the emitted frames that    *)
(* decode, in order.                                                       *)
(***************************************************************************)
\* An L16 payload decodes when it is a whole number of 16-bit samples.
Decodes(frame) == Len(frame.data) % 2 = 0

SwapBytes(data) == [i \in 1..Len(data) |-> data[i + 1 - 2 * ((i + 1) % 2)]]

RECURSIVE Delivered(_)
Delivered(frames) ==
    IF frames = << >> THEN << >>
    ELSE LET frame == Head(frames)
         IN  (IF recv.codec = None
              THEN << [data |-> frame.data, timestamp |-> frame.timestamp] >>
              ELSE IF Decodes(frame)
              THEN << [data |-> SwapBytes(frame.data), timestamp |-> frame.timestamp] >>
              ELSE << >>)
             \o Delivered(Tail(frames))

C8_Caught ==
    (recv'.frame # << >> /\ recv.codec # None /\ ~Decodes(recv'.frame[1])) =>
        recv'.raised = None /\ recv'.audio_calls = recv.audio_calls

C8_DecodeFailureCaught == [](recv.audio_calls = Delivered(jb_frames)) /\ [][C8_Caught]_vars

\* The first frame emitted did not decode and a later one was delivered.
C8_Witness ==
    /\ recv.codec = "L16"
    /\ Len(jb_frames) >= 2 /\ ~Decodes(jb_frames[1])
    /\ Len(recv.audio_calls) >= 1
    /\ recv.raised = None

(***************************************************************************)
(* C9.  Within a run of consecutive DTMF packets that share one RTP        *)
(* timestamp the receiver calls the callback once, at the first end packet *)
(* of the run and with that packet's digit and duration; progress packets  *)
(* and later end packets of the run do not call it.                        *)
(***************************************************************************)
IsEnd(packet) == packet.payload[2] >= 128

FirstEnd(run) == CHOOSE i \in DOMAIN run : IsEnd(run[i]) /\ \A j \in 1..(i - 1) : ~IsEnd(run[j])

ExpectedCalls(run) ==
    IF \E i \in DOMAIN run : IsEnd(run[i])
    THEN LET p == run[FirstEnd(run)]
         IN  << << EVENT_TO_DIGIT(p.payload[1]), BE16(p.payload, 3) >> >>
    ELSE << >>

C9_OneCallbackPerRun == rx_calls = ExpectedCalls(rx_run)

\* A progress packet, then two end packets with different durations, all of
\* one timestamp: one call, with the first end packet's duration.
C9_Witness ==
    /\ Len(rx_run) >= 3
    /\ ~IsEnd(rx_run[1]) /\ IsEnd(rx_run[2]) /\ IsEnd(rx_run[3])
    /\ BE16(rx_run[2].payload, 3) # BE16(rx_run[3].payload, 3)
    /\ rx_calls = << << "5", BE16(rx_run[2].payload, 3) >> >>

(***************************************************************************)
(* C10.  send_digit for a valid digit with duration D ms at clock rate R   *)
(* raises nothing and emits, in order, one end=false packet for each       *)
(* duration step, 2*step, ... below duration_samples and then three        *)
(* end=true packets with duration = duration_samples, the first of them    *)
(* with marker = 1 and the others with marker = 0; all packets carry the   *)
(* digit's event code and the call's timestamp.                            *)
(***************************************************************************)
StepSamples(clock_rate) == (20 * clock_rate) \div 1000

DurationSamples(duration_ms, clock_rate) == (duration_ms * clock_rate) \div 1000

ProgressCount(duration_ms, clock_rate) ==
    LET ds == DurationSamples(duration_ms, clock_rate)
    IN  IF ds <= 0 THEN 0 ELSE (ds - 1) \div StepSamples(clock_rate)

DigitPacketsAsClaimed(call, clock_rate) ==
    LET n    == ProgressCount(call.duration_ms, clock_rate)
        step == StepSamples(clock_rate)
        ds   == DurationSamples(call.duration_ms, clock_rate)
    IN  /\ call.raised = None
        /\ Len(call.packets) = n + 3
        /\ \A i \in 1..(n + 3) :
               LET p  == RtpParse(call.packets[i])
                   ev == DtmfEvent_parse(p.payload)
               IN  /\ p.ok /\ ev.ok
                   /\ ev.event = DTMF_EVENTS[upper(call.digit)]
                   /\ p.timestamp = call.timestamp
                   /\ i <= n => ~ev.end /\ ev.duration = i * step
                   /\ i > n => ev.end /\ ev.duration = ds
                   /\ i > n => p.marker = (IF i = n + 1 THEN 1 ELSE 0)

ValidDigitCall(call) == call.digit # None /\ upper(call.digit) \in DOMAIN DTMF_EVENTS

C10_SendDigitPackets ==
    ValidDigitCall(tx_call) => DigitPacketsAsClaimed(tx_call, dtmf_tx.clock_rate)

\* The same for the durations whose sample count fits the 16-bit field.
SendDigitPackets_16bit ==
    (ValidDigitCall(tx_call)
        /\ DurationSamples(tx_call.duration_ms, dtmf_tx.clock_rate) <= 65535) =>
            DigitPacketsAsClaimed(tx_call, dtmf_tx.clock_rate)

SendDigit_Reached ==
    /\ ValidDigitCall(tx_call) /\ tx_call.duration_ms = 50 /\ Len(tx_call.packets) = 5

(***************************************************************************)
(* C11.  send_dtmf on a session that is not closed, with a character that  *)
(* is none of 0-9, *, #, A-D (in either case), raises ValueError to the    *)
(* caller before any datagram is handed to a transport: the sequence       *)
(* number, packets_sent and octets_sent are as they were.                  *)
(***************************************************************************)
IsDtmfDigit(digit) ==
    digit \in {"0", "1", "2", "3", "4", "5", "6", "7", "8", "9", "*", "#",
               "A", "B", "C", "D", "a", "b", "c", "d"}

C11_InvalidDigitRaises ==
    [][ \A digit \in Digits, duration_ms \in DtmfDurations, timestamp \in AudioTimestamps :
            (~closed /\ ~IsDtmfDigit(digit) /\ send_dtmf(digit, duration_ms, timestamp)) =>
                /\ result'.raised = "ValueError"
                /\ result'.sent = 0
                /\ sender' = sender
                /\ rtp_transport' = rtp_transport
                /\ rtcp_transport' = rtcp_transport ]_vars

\* An invalid digit on an active session that has already sent packets.
C11_Witness ==
    /\ ~closed
    /\ result.op = "send_dtmf" /\ result.raised = "ValueError"
    /\ sender.packets_sent > 0

(***************************************************************************)
(* C12.  The RTP datagrams a session has sent, audio and DTMF alike, carry *)
(* sequence numbers that go up by one modulo 2^16 from one datagram to the *)
(* next; packets_sent is their number and octets_sent the sum of their     *)
(* payload lengths (headers not counted).                                  *)
(***************************************************************************)
RECURSIVE PayloadOctets(_)
PayloadOctets(datagrams) ==
    IF datagrams = << >> THEN 0
    ELSE Len(RtpParse(Head(datagrams)).payload) + PayloadOctets(Tail(datagrams))

C12_SharedSequenceSpace ==
    LET sent == rtp_transport.sent
    IN  /\ \A i \in 1..Len(sent) : RtpParse(sent[i]).ok
        /\ \A i \in 1..(Len(sent) - 1) :
               RtpParse(sent[i + 1]).sequence_number
                   = (RtpParse(sent[i]).sequence_number + 1) % 65536
        /\ sender.packets_sent = Len(sent)
        /\ sender.octets_sent = PayloadOctets(sent)

\* A digit followed by audio, the sequence number wrapping inside the digit.
C12_Witness ==
    LET sent == rtp_transport.sent
    IN  /\ Len(sent) >= 5
        /\ RtpParse(sent[1]).payload_type = session.dtmf_payload_type
        /\ RtpParse(sent[Len(sent)]).payload_type = session.payload_type
        /\ \E i \in 1..(Len(sent) - 1) :
               /\ RtpParse(sent[i]).sequence_number = 65535
               /\ RtpParse(sent[i + 1]).sequence_number = 0

\* Audio followed by a digit.
C12_AudioThenDigit ==
    LET sent == rtp_transport.sent
    IN  /\ Len(sent) >= 4
        /\ RtpParse(sent[1]).payload_type = session.payload_type
        /\ RtpParse(sent[Len(sent)]).payload_type = session.dtmf_payload_type

(***************************************************************************)
(* C13.  A transport answers a received datagram with a STUN response if   *)
(* and only if the datagram is a STUN message (first two bits zero, magic  *)
(* cookie at bytes 4-7) whose 16-bit message type is Binding Request       *)
(* 0x0001; so a response is never answered, and two transports do not keep *)
(* answering each other.                                                   *)
(***************************************************************************)
IsBindingRequest(data) == _is_stun(data) /\ BE16(data, 1) = 1

C13_OnlyBindingRequestAnswered ==
    stun_last.to # 0 =>
        /\ stun_last.replied <=> IsBindingRequest(stun_last.data)
        /\ stun_last.hops >= 1 => ~stun_last.replied

\* What the code does: the answer depends on the low byte of the type only.
Stun_LowByteAnswered ==
    stun_last.to # 0 =>
        (stun_last.replied <=> (_is_stun(stun_last.data) /\ stun_last.data[2] = 1))

\* A Binding Request is answered with a Binding Success that echoes the
\* transaction id.
Stun_RequestAnswered ==
    /\ stun_last.to # 0 /\ stun_last.hops = 0
    /\ IsBindingRequest(stun_last.data) /\ stun_last.replied
    /\ BE16(stun_last.reply[1], 1) = 257
    /\ Slice(stun_last.reply[1], 9, 20) = StunTxn

(***************************************************************************)
(* C14.  NackGenerator.add returns true exactly when the call added a      *)
(* sequence number to missing, which is when the packet is more than one   *)
(* ahead of max_seq in 16-bit modular order.  The first packet, a packet   *)
(* in sequence and a late packet (whether or not it fills a gap) return    *)
(* false.                                                                  *)
(***************************************************************************)
ForwardDistance(ng, sequence_number) == (sequence_number - ng.max_seq[1]) % 65536

ForwardJump(ng, sequence_number) ==
    /\ ng.max_seq # << >>
    /\ ForwardDistance(ng, sequence_number) >= 2
    /\ ForwardDistance(ng, sequence_number) <= 32767

C14_TrueIffNewlyMissing ==
    nack_count > 0 =>
        /\ nack_last.missed <=> (nack.missing \ nack_last.before.missing # {})
        /\ nack_last.missed <=> ForwardJump(nack_last.before, nack_last.sequence_number)

\* A late packet that fills a gap: add returns false.
C14_Witness ==
    /\ nack_count > 1
    /\ nack_last.sequence_number \in nack_last.before.missing
    /\ ~nack_last.missed
    /\ nack.missing # {}

(***************************************************************************)
(* C15.  After every add but the first, every sequence number in missing   *)
(* lies in the modular window [max_seq - RTP_HISTORY_SIZE + 1, max_seq].   *)
(* The code keeps the window [max_seq - RTP_HISTORY_SIZE, max_seq - 1].    *)
(***************************************************************************)
\* How far seq lies behind max_seq, modulo 2^16.
Behind(ng, seq) == (ng.max_seq[1] - seq) % 65536

C15_WindowAsStated ==
    nack_count > 1 =>
        \A seq \in nack.missing :
            Behind(nack, seq) >= 0 /\ Behind(nack, seq) <= RTP_HISTORY_SIZE - 1

C15_WindowOfHistorySize ==
    nack_count > 1 =>
        \A seq \in nack.missing :
            Behind(nack, seq) >= 1 /\ Behind(nack, seq) <= RTP_HISTORY_SIZE

\* A jump past the window: the oldest sequence numbers skipped have been
\* removed, and max_seq - RTP_HISTORY_SIZE is still missing.
C15_Witness ==
    /\ nack_count > 1
    /\ ForwardDistance(nack_last.before, nack_last.sequence_number) > RTP_HISTORY_SIZE + 1
    /\ nack_last.missed
    /\ uint16_add(nack.max_seq[1], -RTP_HISTORY_SIZE) \in nack.missing
    /\ uint16_add(nack.max_seq[1], -(RTP_HISTORY_SIZE + 1)) \notin nack.missing

(***************************************************************************)
(* C16.  After any sequence of add calls, forward jumps of up to 2^15 - 1  *)
(* and sequence wrap-around included, missing holds at most                *)
(* RTP_HISTORY_SIZE sequence numbers, each strictly older than max_seq in  *)
(* 16-bit modular order.                                                   *)
(***************************************************************************)
C16_MissingBounded ==
    /\ Cardinality(nack.missing) <= RTP_HISTORY_SIZE
    /\ nack.max_seq # << >> => \A seq \in nack.missing : uint16_gt(nack.max_seq[1], seq)

\* The widest forward jump, across the wrap, on a generator whose window is
\* already full: missing is full again.
C16_Witness ==
    /\ nack_count > 2
    /\ ForwardDistance(nack_last.before, nack_last.sequence_number) = 32767
    /\ Cardinality(nack_last.before.missing) = RTP_HISTORY_SIZE
    /\ Cardinality(nack.missing) = RTP_HISTORY_SIZE
    /\ \E seq \in nack.missing : seq > nack.max_seq[1]

(***************************************************************************)
(* C17.  After at least one add, packets_expected is cycles + max_seq -    *)
(* base_seq + 1, which is the number of sequence numbers from the first    *)
(* packet's to the highest one received, and packets_lost is               *)
(* clamp(packets_expected - packets_received).  For packets in order with  *)
(* no gap and no duplicate, across the wrap 65535 -> 0 too, packets_lost   *)
(* is 0; for packets in order that skip k sequence numbers it is k.        *)
(***************************************************************************)
C17_ExpectedAndLost ==
    stats.max_seq # << >> =>
        /\ packets_expected(stats) = stats.cycles + stats.max_seq[1] - stats.base_seq[1] + 1
        /\ packets_expected(stats) = stats_trace.max - stats_trace.base + 1
        /\ stats.packets_received = stats_trace.received
        /\ packets_lost(stats)
               = clamp_packets_lost(packets_expected(stats) - stats.packets_received)
        /\ stats_trace.in_order => packets_lost(stats) = stats_trace.skipped

\* Packets in order that skipped sequence numbers and crossed the wrap.
C17_Witness ==
    /\ stats.max_seq # << >>
    /\ stats_trace.in_order /\ stats_trace.skipped = 2 /\ stats_trace.received >= 3
    /\ stats.cycles = 65536
    /\ packets_lost(stats) = 2

(***************************************************************************)
(* C18.  cycles changes only in an add of a packet that is newer than      *)
(* max_seq in 16-bit modular order and numerically smaller, and then by    *)
(* exactly 2^16.  A packet that is not newer changes neither cycles nor    *)
(* max_seq.  So cycles + max_seq never decreases.                          *)
(***************************************************************************)
C18_Step ==
    LET seq   == stats_last'.seq
        newer == uint16_gt(seq, stats.max_seq[1])
    IN  /\ stats'.cycles # stats.cycles =>
               /\ stats_last'.op = "add" /\ stats.max_seq # << >>
               /\ newer /\ seq < stats.max_seq[1]
               /\ stats'.cycles = stats.cycles + 65536
        /\ (stats_last'.op = "add" /\ stats.max_seq # << >> /\ ~newer) =>
               /\ stats'.cycles = stats.cycles
               /\ stats'.max_seq = stats.max_seq
        /\ (stats.max_seq # << >>) =>
               stats'.cycles + stats'.max_seq[1] >= stats.cycles + stats.max_seq[1]

C18_CyclesOnlyOnWrap == [][C18_Step]_vars

\* A wrap has been counted, and a late packet after it has changed nothing.
C18_Witness ==
    /\ stats.cycles = 65536
    /\ stats_last.op = "add" /\ stats_last.before.max_seq # << >>
    /\ ~uint16_gt(stats_last.seq, stats_last.before.max_seq[1])
    /\ stats_last.seq > stats.max_seq[1]

(***************************************************************************)
(* C19.  A read of fraction_lost on statistics that have received a packet *)
(* returns floor(256 * lost / expected) over the packets expected and      *)
(* received since the previous read (since the start for the first read),  *)
(* and 0 when nothing was expected or nothing was lost in that interval;   *)
(* it starts a new interval, so a second read with no add in between       *)
(* returns 0.  A read on statistics that have received nothing raises      *)
(* TypeError and leaves them as they were.                                 *)
(***************************************************************************)
\* Computed from the packets themselves, before the read.
IntervalExpected == stats_trace.max - stats_trace.read_max

IntervalReceived == stats_trace.received - stats_trace.read_received

\* What a read returns, and that it raises nothing.
C19_ReadValue ==
    /\ stats_last'.raised = None
    /\ stats_last'.value =
           IF IntervalExpected = 0 \/ IntervalExpected - IntervalReceived <= 0
           THEN 0
           ELSE (256 * (IntervalExpected - IntervalReceived)) \div IntervalExpected
    /\ stats_last.op = "fraction_lost" => stats_last'.value = 0

C19_Step ==
    stats_last'.op = "fraction_lost" =>
        IF stats_trace.received > 0
        THEN C19_ReadValue
        ELSE stats_last'.raised = "TypeError" /\ stats' = stats

C19_FractionLostPerInterval == [][C19_Step]_vars

\* The same of every read, the reads before the first add included: 0 is
\* returned when nothing was expected.
C19_EveryRead == [][stats_last'.op = "fraction_lost" => C19_ReadValue]_vars

\* A second interval with a loss in it.
C19_Witness ==
    /\ stats_last.op = "fraction_lost" /\ stats_last.value = 170
    /\ stats_last.before.expected_prior > 0

(***************************************************************************)
(* C20.  For packets in order, with no loss, each arriving as much later   *)
(* than the one before (in units of the clock rate) as its 32-bit RTP      *)
(* timestamp is later, jitter is 0 after every add.                        *)
(***************************************************************************)
SteadyStream ==
    stats_trace.in_order /\ stats_trace.skipped = 0 /\ stats_trace.cadence

C20_SteadyStreamNoJitter == SteadyStream => jitter(stats) = Wide(0)

\* The same for streams whose timestamp has not wrapped.
SteadyStream_NoJitterBeforeWrap ==
    (SteadyStream /\ ~stats_trace.ts_wrapped) => jitter(stats) = Wide(0)

SteadyStream_Reached ==
    SteadyStream /\ ~stats_trace.ts_wrapped /\ stats_trace.received >= 3 /\ stats.cycles > 0


(***************************************************************************)
(* The jitter buffer on its own (SpecJitter).                              *)
(***************************************************************************)
\* The occupied slots of a buffer, as the packets in them.
Buffered(jb) == {jb.packets[i][1] : i \in {i \in 1..jb.capacity : jb.packets[i] # << >>}}

\* C21: after any sequence of add calls that leaves the buffer non-empty,
\* origin is the smallest sequence number, in 16-bit modular order, among
\* the occupied slots: the packet of that number is in the buffer and no
\* buffered packet is older than it.
C21_OriginIsMinimum ==
    Buffered(jbuf) # {} =>
        /\ jbuf.origin # << >>
        /\ \E p \in Buffered(jbuf) : p.sequence_number = jbuf.origin[1]
        /\ \A p \in Buffered(jbuf) : ~uint16_gt(jbuf.origin[1], p.sequence_number)

\* The origin has moved on from the first packet and other packets lie
\* behind it in the ring.
C21_Witness ==
    /\ Len(jbuf_log) >= 3
    /\ jbuf.origin # << jbuf_log[1].sequence_number >>
    /\ Cardinality(Buffered(jbuf)) >= 2
    /\ jbuf_last.before.origin # jbuf.origin
    /\ jbuf_last.frame = << >>

\* The frame boundaries of a buffer, read off its slots: the packet i places
\* after the origin starts a new frame when its timestamp differs from that
\* of the last packet before it and the walk from the origin reaches it,
\* which it does over no empty slot, or over runs of at most MAX_AUDIO_GAP
\* empty slots with skip_audio_gaps in audio mode.
Occupied(jb, i) == PacketAfter(jb, i) # << >>

GapAllowed(jb) == IF jb.skip_audio_gaps /\ ~jb.is_video THEN MAX_AUDIO_GAP ELSE 0

Reached(jb, i) ==
    /\ Occupied(jb, 0)
    /\ \A a \in 1..i : Occupied(jb, a) \/ \E g \in 1..GapAllowed(jb) : g <= a /\ Occupied(jb, a - g)

PacketBefore(jb, i) ==
    PacketAfter(jb, CHOOSE j \in 0..(i - 1) :
                        Occupied(jb, j) /\ \A k \in (j + 1)..(i - 1) : ~Occupied(jb, k))[1]

BoundaryAt(jb, i) ==
    /\ Occupied(jb, i) /\ Reached(jb, i)
    /\ PacketBefore(jb, i).timestamp # PacketAfter(jb, i)[1].timestamp

Boundaries(jb) == {i \in 1..(jb.capacity - 1) : BoundaryAt(jb, i)}

FirstBoundary(jb) == CHOOSE i \in Boundaries(jb) : \A j \in Boundaries(jb) : i <= j

Needed(jb) == IF jb.prefetch >= 1 THEN jb.prefetch ELSE 1

\* An add in audio mode that returned a frame: enough boundaries follow
\* the head, the frame carries the head's timestamp (and the head's payload
\* when the head frame is that one packet), and the origin is then the
\* packet that starts the next frame.
C22_EmitsHead ==
    (~jbuf.is_video /\ jbuf_last.frame # << >>) =>
        LET placed == jbuf_last.placed
            head   == PacketAfter(placed, 0)[1]
            next   == FirstBoundary(placed)
        IN  /\ Cardinality(Boundaries(placed)) >= Needed(jbuf)
            /\ jbuf_last.frame[1].timestamp = head.timestamp
            /\ (\A i \in 1..(next - 1) : ~Occupied(placed, i)) =>
                   jbuf_last.frame[1].data = head.payload
            /\ jbuf.origin = << PacketAfter(placed, next)[1].sequence_number >>
            /\ \A p \in Buffered(jbuf) : ~uint16_gt(jbuf.origin[1], p.sequence_number)

\* The packets added so far came in order, without a gap, each with a
\* timestamp other than its predecessor's.
InOrderStream ==
    \A j \in 2..Len(jbuf_log) :
        /\ jbuf_log[j].sequence_number = uint16_add(jbuf_log[j - 1].sequence_number, 1)
        /\ jbuf_log[j].timestamp # jbuf_log[j - 1].timestamp

\* On such a stream the add of packet j returns frame j - ahead, and no
\* frame for the first ahead packets.
FrameLags(ahead) ==
    (~jbuf.is_video /\ InOrderStream /\ Len(jbuf_log) >= 1) =>
        LET j == Len(jbuf_log)
        IN  IF j - ahead >= 1
            THEN jbuf_last.frame = << JitterFrame(jbuf_log[j - ahead].payload,
                                                  jbuf_log[j - ahead].timestamp) >>
            ELSE jbuf_last.frame = << >>

\* C22 (amended): in audio mode add returns a frame only when at least
\* prefetch, and at least one, frame boundaries follow the head; the frame
\* is the head frame, the origin then advances past it, and on an in-order
\* gap-free stream with distinct timestamps frame k is returned by the add
\* of packet k + max(prefetch, 1).
C22_HeadFrameAfterPrefetch == C22_EmitsHead /\ FrameLags(Needed(jbuf))

\* C22 as stated: the frame's data is the payload of the packet at the
\* origin, and frame k is returned by the add of packet k + prefetch.
C22_FrameAtPrefetch ==
    /\ C22_EmitsHead
    /\ (~jbuf.is_video /\ jbuf_last.frame # << >>) =>
           jbuf_last.frame[1].data = PacketAfter(jbuf_last.placed, 0)[1].payload
    /\ FrameLags(jbuf.prefetch)

\* The fourth packet of an in-order stream into a buffer with prefetch 2
\* returns the second frame.
C22_Witness ==
    /\ ~jbuf.is_video /\ jbuf.prefetch = 2 /\ InOrderStream /\ Len(jbuf_log) = 4
    /\ jbuf_last.frame = << JitterFrame(jbuf_log[2].payload, jbuf_log[2].timestamp) >>
    /\ jbuf.origin = << jbuf_log[3].sequence_number >>

\* The payloads of the n packets from the origin on, joined in the order of
\* their sequence numbers.
RECURSIVE RunData(_, _)
RunData(jb, n) ==
    IF n = 0 THEN << >> ELSE RunData(jb, n - 1) \o PacketAfter(jb, n - 1)[1].payload

\* The run at the head of the buffer is complete: n packets with the
\* head's timestamp, none missing, and then a packet with another.
CompleteRun(jb, n) ==
    /\ \A i \in 0..n : Occupied(jb, i)
    /\ \A i \in 0..(n - 1) : PacketAfter(jb, i)[1].timestamp = PacketAfter(jb, 0)[1].timestamp
    /\ PacketAfter(jb, n)[1].timestamp # PacketAfter(jb, 0)[1].timestamp

\* C23: in video mode a frame is emitted only when every packet from the
\* origin up to the first packet with a different timestamp is present; its
\* data is the payloads of exactly those packets, joined in sequence-number
\* order whatever the order they arrived in, and a missing packet inside
\* the run blocks emission.
C23_VideoFrameIsRun ==
    (jbuf.is_video /\ Len(jbuf_log) >= 1) =>
        LET placed == jbuf_last.placed
            runs   == {n \in 1..(placed.capacity - 1) : CompleteRun(placed, n)}
        IN  /\ jbuf_last.frame # << >> =>
                /\ runs # {}
                /\ \A n \in runs :
                       jbuf_last.frame[1] = JitterFrame(RunData(placed, n),
                                                        PacketAfter(placed, 0)[1].timestamp)
            /\ runs = {} => jbuf_last.frame = << >>

\* A frame of two packets, the second of which arrived after the packet
\* that ends the frame.
C23_Witness ==
    /\ jbuf.is_video /\ Len(jbuf_log) = 3
    /\ jbuf_log[3].sequence_number = uint16_add(jbuf_log[1].sequence_number, 1)
    /\ jbuf_log[2].sequence_number = uint16_add(jbuf_log[1].sequence_number, 2)
    /\ jbuf_last.frame = << JitterFrame(jbuf_log[1].payload \o jbuf_log[3].payload,
                                        jbuf_log[1].timestamp) >>

\* The place after the origin of the first packet behind the head, given
\* that there is one.
NextPacket(jb) ==
    CHOOSE n \in 1..(jb.capacity - 1) : Occupied(jb, n) /\ \A i \in 1..(n - 1) : ~Occupied(jb, i)

\* C24: with skip_audio_gaps, a run of at most MAX_AUDIO_GAP empty slots
\* followed by a packet with a different timestamp counts as one frame
\* boundary, and the missing packets are skipped when the frame before them
\* is emitted; a run of more than MAX_AUDIO_GAP empty slots stops the scan
\* with no frame; a gap followed by a packet with the same timestamp is not
\* a boundary.  (Of an add that placed its packet: a packet from behind the
\* origin is dropped before the scan.)
C24_GapCountsAsBoundary ==
    (/\ jbuf.skip_audio_gaps /\ ~jbuf.is_video /\ Len(jbuf_log) >= 1
     /\ jbuf_last.packet \in Buffered(jbuf_last.placed)) =>
        LET placed == jbuf_last.placed
            head   == PacketAfter(placed, 0)[1]
            others == \E n \in 1..(placed.capacity - 1) : Occupied(placed, n)
            n      == NextPacket(placed)
            behind == PacketAfter(placed, n)[1]
        IN  \* every boundary counts once, over a gap or not
            /\ jbuf_last.frame # << >> <=> Cardinality(Boundaries(placed)) >= Needed(jbuf)
            /\ \A i \in Boundaries(placed) :
                   \E g \in 0..MAX_AUDIO_GAP :
                       /\ Occupied(placed, i - 1 - g)
                       /\ \A k \in (i - g)..(i - 1) : ~Occupied(placed, k)
            \* a short gap behind the head, closed by another timestamp
            /\ (others /\ n - 1 <= MAX_AUDIO_GAP /\ behind.timestamp # head.timestamp
                  /\ jbuf.prefetch = 0) =>
                   /\ jbuf_last.frame = << JitterFrame(head.payload, head.timestamp) >>
                   /\ jbuf.origin = << behind.sequence_number >>
            \* a long gap behind the head
            /\ (others /\ n - 1 > MAX_AUDIO_GAP) =>
                   /\ jbuf_last.frame = << >>
                   /\ jbuf = placed
            \* the same timestamp on both sides of a gap
            /\ (\A p \in Buffered(placed) : p.timestamp = head.timestamp) =>
                   jbuf_last.frame = << >>

\* A packet arrived three places after the head with another timestamp:
\* the head frame is returned and the origin is now that packet.
C24_Witness ==
    /\ jbuf.skip_audio_gaps /\ ~jbuf.is_video /\ jbuf.prefetch = 0
    /\ Cardinality(Buffered(jbuf_last.placed)) = 2
    /\ NextPacket(jbuf_last.placed) = 3
    /\ jbuf_last.frame # << >>
    /\ jbuf.origin = << jbuf_last.packet.sequence_number >>
    /\ jbuf.origin = << uint16_add(jbuf_last.before.origin[1], 3) >>

\* A packet far outside the window: more than 16 windows away from the
\* origin, ahead of it or behind it, and for a window of 128 or more also
\* one that is a window or more behind it.
FarOut(jb, sequence_number) ==
    LET delta    == uint16_add(sequence_number, -jb.origin[1])
        misorder == uint16_add(jb.origin[1], -sequence_number)
    IN  /\ delta > 16 * jb.capacity
        /\ \/ misorder > 16 * jb.capacity
           \/ jb.capacity >= 128 /\ misorder >= jb.capacity

\* C25: when a packet arrives far outside the window, ahead of the origin
\* or behind it, add discards every buffered packet, sets origin to the
\* packet's sequence number, keeps only that packet, and returns the PLI
\* flag true exactly when the buffer is in video mode.
C25_FarPacketResets ==
    (Len(jbuf_log) >= 2 /\ FarOut(jbuf_last.before, jbuf_last.packet.sequence_number)) =>
        /\ jbuf.origin = << jbuf_last.packet.sequence_number >>
        /\ Buffered(jbuf) = {jbuf_last.packet}
        /\ jbuf_last.pli_flag = jbuf.is_video
        /\ jbuf_last.frame = << >>

\* A video buffer holding two packets is reset by a packet from far behind.
C25_Witness ==
    /\ Len(jbuf_log) = 3 /\ jbuf.is_video
    /\ Cardinality(Buffered(jbuf_last.before)) = 2
    /\ FarOut(jbuf_last.before, jbuf_last.packet.sequence_number)
    /\ uint16_gt(jbuf_last.before.origin[1], jbuf_last.packet.sequence_number)
    /\ jbuf_last.pli_flag
    /\ Buffered(jbuf) = {jbuf_last.packet}

\* The ring positions, from 0, of the buffered packets, each with its
\* packet's sequence number.
Positions(jb) ==
    {<< i - 1, jb.packets[i][1].sequence_number >> :
        i \in {i \in 1..jb.capacity : jb.packets[i] # << >>}}

\* C29 (amended): after any sequence of adds, a buffered packet with
\* sequence number S occupies ring position S mod capacity; the first packet
\* ever added is stored at the slot of its sequence number mod capacity.
C29_SlotIsSequenceModCapacity ==
    \A e \in Positions(jbuf) : e[1] = e[2] % jbuf.capacity

\* C29 as stated: a buffered packet with sequence number S occupies ring
\* position (S - origin) mod capacity, the first packet added slot 0.
C29_SlotFromOrigin ==
    \A e \in Positions(jbuf) : e[1] = uint16_add(e[2], -jbuf.origin[1]) % jbuf.capacity

\* Two packets in the ring after the origin has moved to a sequence number
\* that is no multiple of the capacity, the later one wrapped round to a
\* slot before the origin's.
C29_Witness ==
    /\ Len(jbuf_log) >= 3
    /\ jbuf.origin # << jbuf_log[1].sequence_number >>
    /\ jbuf.origin[1] % jbuf.capacity # 0
    /\ \E e \in Positions(jbuf) : e[2] # jbuf.origin[1] /\ e[1] < jbuf.origin[1] % jbuf.capacity

\* The last add found its packet beyond the window and not far out: the
\* distance d from the origin and the least advance that fits the packet.
Beyond ==
    /\ Len(jbuf_log) >= 2
    /\ uint16_add(jbuf_last.packet.sequence_number, -jbuf_last.before.origin[1])
           >= jbuf.capacity
    /\ uint16_add(jbuf_last.packet.sequence_number, -jbuf_last.before.origin[1])
           <= 16 * jbuf.capacity

LeastAdvance ==
    uint16_add(jbuf_last.packet.sequence_number, -jbuf_last.before.origin[1])
        - jbuf.capacity + 1

\* How far the origin had moved when the packet was placed.
Advance == uint16_add(jbuf_last.placed.origin[1], -jbuf_last.before.origin[1])

\* The packet i places after the old origin carries on the frame of the
\* packet before it.
ContinuesFrame(i) ==
    Occupied(jbuf_last.before, i) =>
        PacketAfter(jbuf_last.before, i)[1].timestamp
            = PacketBefore(jbuf_last.before, i).timestamp

\* Only the packets before the new origin are gone, and the PLI flag is set
\* in video mode.
C30_DiscardsBeforeOrigin ==
    /\ Buffered(jbuf_last.placed) =
           {p \in Buffered(jbuf_last.before) :
                ~uint16_gt(jbuf_last.placed.origin[1], p.sequence_number)}
           \cup {jbuf_last.packet}
    /\ jbuf_last.pli_flag = jbuf.is_video

\* C30 (amended): when a packet arrives with d >= capacity and no reset
\* applies, origin advances by at least d - capacity + 1 and on to the end
\* of the frame it is then in: to the first packet from there on whose
\* timestamp differs from that of the packet before it, or, when there is
\* none in the window, to the new packet; only the packets before the new
\* origin are discarded, and in video mode the PLI flag is returned true.
C30_AdvancesToFrameStart ==
    Beyond =>
        /\ C30_DiscardsBeforeOrigin
        /\ Advance >= LeastAdvance
        /\ \A i \in LeastAdvance..(jbuf.capacity - 1) : i < Advance => ContinuesFrame(i)
        /\ IF Advance < jbuf.capacity
           THEN Occupied(jbuf_last.before, Advance) /\ ~ContinuesFrame(Advance)
           ELSE jbuf_last.placed.origin = << jbuf_last.packet.sequence_number >>

\* C30 as stated: origin advances by exactly d - capacity + 1.
C30_AdvancesByMinimum ==
    Beyond => (C30_DiscardsBeforeOrigin /\ Advance = LeastAdvance)

\* The packet needed one slot; the origin moved three, past a missing packet
\* and the rest of the head frame, to the start of the next frame.
C30_Witness ==
    /\ Beyond /\ LeastAdvance = 1 /\ Advance = 3
    /\ Cardinality(Buffered(jbuf_last.before)) = 3
    /\ Cardinality(Buffered(jbuf_last.placed)) = 2

(***************************************************************************)
(* The port allocator (SpecPorts).                                         *)
(***************************************************************************)
\* C26: under any interleaving of allocate and release calls, allocate
\* never returns a pair whose RTP port is allocated at that moment (returned
\* earlier and not released since), and every pair returned is (p, p + 1)
\* with p even and min <= p < max of the configured range.
C26_NoDoubleAllocation ==
    (port_last.op = "allocate" /\ port_last.raised = None) =>
        LET p == port_last.value[1]
        IN  /\ p \notin port_last.held
            /\ port_last.value = << p, p + 1 >>
            /\ p % 2 = 0
            /\ port_range[1] <= p /\ p < port_range[2]

\* With one pair out, the second task is given a pair that is not the one
\* held.
C26_Witness ==
    /\ port_count >= 3
    /\ port_last.op = "allocate" /\ port_last.raised = None /\ port_last.task = 2
    /\ port_last.held # {}
    /\ port_held = port_last.held \cup {port_last.value[1]}
    /\ Cardinality(port_held) = 2

(***************************************************************************)
(* C27. The cumulative-lost codec round-trips: for every count n from      *)
(* -2^23 - 1 to 2^23, unpacking the packed n gives n limited to            *)
(* [-8388608, 8388607]; and for every 3-byte string x, packing the         *)
(* unpacked x gives x back.                                                *)
(***************************************************************************)
C27_LostRoundTrip ==
    lost_out # << >> =>
        /\ (lost_in.kind = "count" /\ lost_in.count \in -8388609..8388608) =>
               /\ lost_out[1].count = clamp_packets_lost(lost_in.count)
               /\ lost_out[1].count \in -8388608..8388607
               /\ (lost_in.count \in -8388608..8388607 => lost_out[1].count = lost_in.count)
               /\ Len(lost_out[1].bytes) = 3
        /\ lost_in.kind = "bytes" => lost_out[1].bytes = lost_in.bytes

\* The count one above the greatest the field holds has been packed and
\* unpacked, and came back as the greatest.
C27_Witness ==
    /\ lost_in.kind = "count" /\ lost_in.count = 8388608
    /\ lost_out = << [bytes |-> << 127, 255, 255 >>, count |-> 8388607] >>

(***************************************************************************)
(* C28. RtcpPacket.parse of the concatenated serializations of RTCP        *)
(* packets q1..qn (SR, RR, SDES, BYE, RTPFB, PSFB) returns exactly n       *)
(* packets, equal to q1..qn in the same order, and each returned packet    *)
(* serializes to the bytes its original did.  The packets are well formed: *)
(* every field fits its width and a NACK list is strictly ascending.       *)
(***************************************************************************)
\* The parsed packet p has the variant and the fields of q.
SamePacket(p, q) == \A f \in DOMAIN q : f \in DOMAIN p /\ p[f] = q[f]

C28_CompoundRoundTrip ==
    rtcp_parsed # << >> =>
        LET parsed == rtcp_parsed[1]
        IN  /\ parsed.ok
            /\ Len(parsed.packets) = Len(rtcp_in)
            /\ \A i \in 1..Len(rtcp_in) :
                   /\ SamePacket(parsed.packets[i], rtcp_in[i])
                   /\ RtcpPacket_bytes(parsed.packets[i]) = RtcpPacket_bytes(rtcp_in[i])
            /\ Compound_bytes(parsed.packets) = rtcp_wire[1]

\* A sender report with one report block followed by an SDES with a CNAME
\* has been serialized and parsed back as two packets.
C28_Witness ==
    /\ rtcp_parsed # << >> /\ rtcp_parsed[1].ok
    /\ Len(rtcp_in) = 2
    /\ rtcp_in[1].type = "SR" /\ Len(rtcp_in[1].reports) = 1
    /\ rtcp_in[2] = RtcpSdesPacket(<< RtcpSourceInfo(1831097322, << << SDES_CNAME, DEFAULT_CNAME >> >>) >>)
    /\ Len(rtcp_parsed[1].packets) = 2
    /\ rtcp_parsed[1].packets[2].chunks = rtcp_in[2].chunks

(***************************************************************************)
(* C31. NackGenerator orders sequence numbers modulo 2^16.  A packet newer *)
(* than max_seq (less than 2^15 ahead of it, through 65535 -> 0 too) adds  *)
(* exactly the sequence numbers strictly between the old max_seq and its   *)
(* own to missing and becomes max_seq; a packet that is not newer is       *)
(* removed from missing and leaves max_seq alone.  What add leaves in      *)
(* missing then goes through truncate.                                     *)
(***************************************************************************)
\* a is newer than b: 0 < (a - b) mod 2^16 < 2^15.
Newer(a, b) == (a - b) % 65536 \in 1..32767

\* seq lies strictly between a and b, going up from a.
IsBetween(seq, a, b) == (seq - a) % 65536 > 0 /\ (seq - a) % 65536 < (b - a) % 65536

\* The sequence numbers strictly between a and b, going up from a.
StrictlyBetween(a, b) == {(a + k) % 65536 : k \in 1..(((b - a) % 65536) - 1)}

C31_ModularOrder ==
    (nack_count > 1) =>
        LET before == nack_last.before
            seq    == nack_last.sequence_number
            old    == before.max_seq[1]
        IN  IF Newer(seq, old)
            THEN /\ nack.max_seq = << seq >>
                 /\ nack = NackGenerator_truncate(
                               [ max_seq |-> << seq >>,
                                 missing |-> before.missing \cup StrictlyBetween(old, seq) ])
                 /\ \A added \in nack.missing \ before.missing : IsBetween(added, old, seq)
                 /\ (seq - old) % 65536 <= RTP_HISTORY_SIZE + 1 =>
                        /\ StrictlyBetween(old, seq) \subseteq nack.missing
                        /\ \A s \in nack.missing : s \in before.missing \/ IsBetween(s, old, seq)
            ELSE /\ nack.max_seq = before.max_seq
                 /\ nack.missing = before.missing \ {seq}

\* Packets 65534, 65535 and 1 have arrived: 0 is missing.
C31_Witness ==
    /\ nack_count = 3
    /\ nack_last.before.max_seq = << 65535 >>
    /\ nack_last.sequence_number = 1
    /\ nack.max_seq = << 1 >>
    /\ nack.missing = {0}

(***************************************************************************)
(* C32. A parsed RTP packet of the DTMF payload type changes neither the   *)
(* stream statistics nor the jitter buffer and does not lead to on_audio.  *)
(* Every other parsed RTP packet raises packets_received by exactly one    *)
(* (the statistics are created by the first), is given to the jitter       *)
(* buffer's add, and leaves the DTMF receiver and on_dtmf alone.           *)
(***************************************************************************)
PacketsReceived(s) == IF s.stream_stats = << >> THEN 0 ELSE s.stream_stats[1].packets_received

C32_Routed ==
    (recv_count' = recv_count + 1 /\ recv_last'.op = "_handle_rtp"
       /\ RtpParse(recv_last'.data).ok) =>
        LET packet == RtpParse(recv_last'.data)
        IN  IF packet.payload_type = recv.dtmf_payload_type
            THEN /\ recv'.stream_stats = recv.stream_stats
                 /\ recv'.jitter_buffer = recv.jitter_buffer
                 /\ recv'.audio_calls = recv.audio_calls
                 /\ recv'.frame = << >>
            ELSE /\ recv'.stream_stats # << >>
                 /\ PacketsReceived(recv') = PacketsReceived(recv) + 1
                 /\ recv'.jitter_buffer = JitterBuffer_add(recv.jitter_buffer, packet).jb
                 /\ recv.jitter_buffer.origin = << >> => packet \in Buffered(recv'.jitter_buffer)
                 /\ recv'.dtmf_receiver_instance = recv.dtmf_receiver_instance
                 /\ recv'.dtmf_calls = recv.dtmf_calls

C32_DtmfApartFromMedia == [][C32_Routed]_vars

\* A DTMF end packet has come in after a media packet: the callback has
\* run, and the statistics still count one packet.
C32_Witness ==
    /\ recv_last.op = "_handle_rtp"
    /\ RtpParse(recv_last.data).ok
    /\ RtpParse(recv_last.data).payload_type = recv.dtmf_payload_type
    /\ Len(recv.dtmf_calls) = 1
    /\ PacketsReceived(recv) = 1
    /\ Cardinality(rx_media) = 1
    /\ Cardinality(Buffered(recv.jitter_buffer)) = 1

(***************************************************************************)
(* C33. Every datagram the RTCP timer sends is one sender report followed  *)
(* by one SDES with a single chunk holding a single CNAME item (type 1);   *)
(* the report's packet_count and octet_count are the sender's packets_sent *)
(* and octets_sent at the moment it is sent, so neither count decreases    *)
(* from one sender report to the next.                                     *)
(***************************************************************************)
\* The datagrams on the RTCP wire other than the BYE, parsed.
TimerReports(t) == [i \in SrIndices(t) |-> RtcpParse(t.sent[i])]

IsSrSdes(parsed) ==
    /\ parsed.ok
    /\ Len(parsed.packets) = 2
    /\ parsed.packets[1].type = "SR"
    /\ parsed.packets[1].reports = << >>
    /\ parsed.packets[2].type = "SDES"
    /\ Len(parsed.packets[2].chunks) = 1
    /\ Len(parsed.packets[2].chunks[1].items) = 1
    /\ parsed.packets[2].chunks[1].items[1][1] = SDES_CNAME
    /\ parsed.packets[2].chunks[1].items[1][2] = session.cname

C33_SrThenSdes ==
    /\ \A i \in DOMAIN rtcp_transport.sent : IsSr(rtcp_transport.sent[i]) \/ IsBye(rtcp_transport.sent[i])
    /\ \A i \in SrIndices(rtcp_transport) : IsSrSdes(TimerReports(rtcp_transport)[i])
    /\ \A i, j \in SrIndices(rtcp_transport) :
           i < j =>
               LET a == TimerReports(rtcp_transport)[i].packets[1].sender_info
                   b == TimerReports(rtcp_transport)[j].packets[1].sender_info
               IN  a.packet_count <= b.packet_count /\ a.octet_count <= b.octet_count

C33_CountsAtEmission ==
    NumSr(rtcp_transport') > NumSr(rtcp_transport) =>
        LET info == RtcpParse(rtcp_transport'.sent[Len(rtcp_transport'.sent)]).packets[1].sender_info
        IN  /\ Len(rtcp_transport'.sent) = Len(rtcp_transport.sent) + 1
            /\ info.packet_count = sender.packets_sent
            /\ info.octet_count = sender.octets_sent
            /\ sender' = sender

C33_SenderReports == []C33_SrThenSdes /\ [][C33_CountsAtEmission]_vars

\* Two sender reports are on the wire, the sender having sent packets
\* before the first and more before the second.
C33_Witness ==
    /\ NumSr(rtcp_transport) = 2
    /\ LET a == RtcpParse(rtcp_transport.sent[1]).packets[1].sender_info
           b == RtcpParse(rtcp_transport.sent[2]).packets[1].sender_info
       IN  /\ a.packet_count > 0
           /\ b.packet_count > a.packet_count
           /\ b.octet_count > a.octet_count
           /\ b.packet_count = sender.packets_sent

(***************************************************************************)
(* C34. While a created session is not closed its RTCP task keeps running: *)
(* on an event loop that keeps running, each sleep is followed by one more *)
(* SR/SDES compound, for as long as close() has not been called.  With n   *)
(* sender reports on the wire (n below the number of timer expiries the    *)
(* model follows), either one more is sent or the session is closed.       *)
(***************************************************************************)
C34_SrKeepsComing ==
    \A n \in 0..(MaxTimer - 1) :
        (~closed /\ NumSr(rtcp_transport) = n) ~> (closed \/ NumSr(rtcp_transport) > n)

\* The task has slept and sent a report as often as the timer expired, and
\* sleeps again; the session is open.
C34_Witness ==
    /\ ~closed
    /\ NumSr(rtcp_transport) = MaxTimer
    /\ rtcp_task.pc = "sleeping" /\ ~rtcp_task.sleep_done

(***************************************************************************)
(* C35. Every packet a session emits carries the session's one local SSRC: *)
(* each RTP packet on the RTP wire, audio and DTMF event alike, and on the *)
(* RTCP wire each SR, each SDES chunk and the source of the final BYE.     *)
(***************************************************************************)
RtcpSsrcs(q) ==
    CASE q.type = "SR"   -> {q.ssrc}
      [] q.type = "SDES" -> {q.chunks[i].ssrc : i \in DOMAIN q.chunks}
      [] q.type = "BYE"  -> {q.sources[i] : i \in DOMAIN q.sources}
      [] OTHER           -> {-1}

C35_OneSsrc ==
    /\ \A i \in DOMAIN rtp_transport.sent :
           LET packet == RtpParse(rtp_transport.sent[i])
           IN  packet.ok /\ packet.ssrc = session.ssrc
    /\ \A i \in DOMAIN rtcp_transport.sent :
           LET parsed == RtcpParse(rtcp_transport.sent[i])
           IN  /\ parsed.ok
               /\ \A k \in DOMAIN parsed.packets :
                      RtcpSsrcs(parsed.packets[k]) = {session.ssrc}

\* Audio and DTMF event packets are on the RTP wire, a sender report and
\* the BYE on the RTCP wire.
C35_Witness ==
    /\ \E i \in DOMAIN rtp_transport.sent :
           RtpParse(rtp_transport.sent[i]).payload_type = session.payload_type
    /\ \E i \in DOMAIN rtp_transport.sent :
           RtpParse(rtp_transport.sent[i]).payload_type = session.dtmf_payload_type
    /\ \E i \in DOMAIN rtcp_transport.sent : IsSr(rtcp_transport.sent[i])
    /\ \E i \in DOMAIN rtcp_transport.sent : IsBye(rtcp_transport.sent[i])

(***************************************************************************)
(* C36. Once a packet has been added, every read of fraction_lost returns  *)
(* a value in 0..255, the range of the 8-bit field of a report block,      *)
(* whatever adds (in order, reordered, duplicated, with gaps, across the   *)
(* 16-bit wrap) and reads came before it.                                  *)
(***************************************************************************)
C36_FractionFitsByte ==
    (stats_last.op = "fraction_lost" /\ stats_last.before.max_seq # << >>) =>
        /\ stats_last.raised = None
        /\ stats_last.value \in 0..255

\* A read that follows an earlier read and the widest forward jump returns
\* the largest value of the range.
C36_Witness ==
    /\ stats_last.op = "fraction_lost"
    /\ stats_last.before.expected_prior > 0
    /\ stats_last.value = 255

(***************************************************************************)
(* C37. Once close() has set the closed flag no on_audio and no on_dtmf    *)
(* callback is invoked any more: a step taken by a closed session, a       *)
(* datagram delivered while close() is suspended included, adds no call.   *)
(***************************************************************************)
C37_CallbackStep ==
    closed => /\ recv'.audio_calls = recv.audio_calls
              /\ recv'.dtmf_calls = recv.dtmf_calls

C37_NoCallbackAfterClose == [][C37_CallbackStep]_vars

(***************************************************************************)
(* C38. DTMF packets of several events, told apart by their timestamps, in *)
(* any order of arrival: the callback is invoked at most once per          *)
(* uninterrupted run of packets with one timestamp, and the first end      *)
(* packet of a run is the one reported.  An event whose packets arrive     *)
(* with no packet of another event between them is reported at most once;  *)
(* a late end packet of an earlier event that arrives after a later event  *)
(* has begun starts a run of its own and is reported again.                *)
(***************************************************************************)
LogTimestamp(i) == rx_log[i].packet.timestamp

\* The number of calls of the callback made for packets with timestamp ts.
CallsFor(ts) ==
    Cardinality({i \in DOMAIN rx_log : LogTimestamp(i) = ts /\ rx_log[i].calls # << >>})

StartsRun(i) == i = 1 \/ LogTimestamp(i - 1) # LogTimestamp(i)

\* The number of runs of packets with timestamp ts.
RunsOf(ts) == Cardinality({i \in DOMAIN rx_log : LogTimestamp(i) = ts /\ StartsRun(i)})

C38_AtMostOncePerEvent == \A ts \in RxTimestamps : CallsFor(ts) <= 1

C38_OncePerRun ==
    /\ \A ts \in RxTimestamps : CallsFor(ts) <= RunsOf(ts)
    /\ \A i \in DOMAIN rx_log :
           (StartsRun(i) /\ IsEnd(rx_log[i].packet)) => Len(rx_log[i].calls) = 1
    /\ \A i \in DOMAIN rx_log : Len(rx_log[i].calls) <= 1

\* An event ends, a later event begins, and a late end packet of the
\* earlier event arrives: the earlier event has been reported twice.
C38_Witness ==
    /\ Len(rx_log) = 3
    /\ LogTimestamp(1) = 1000 /\ LogTimestamp(2) = 2000 /\ LogTimestamp(3) = 1000
    /\ IsEnd(rx_log[1].packet) /\ ~IsEnd(rx_log[2].packet) /\ IsEnd(rx_log[3].packet)
    /\ CallsFor(1000) = 2

(***************************************************************************)
(* C39. The packets of one send_digit(digit, duration_ms) call, parsed and *)
(* handed in order to a fresh DtmfReceiver, invoke the callback exactly    *)
(* once, with the digit in upper case and duration_ms * clock_rate / 1000  *)
(* samples, for every valid digit and every duration whose sample count    *)
(* fits in 16 bits.                                                        *)
(***************************************************************************)
\* RtpPacket.parse and handle_packet for each datagram in turn; st holds the
\* receiver, the calls of the callback so far and whether anything raised.
RECURSIVE receive_all(_, _)
receive_all(st, datagrams) ==
    IF datagrams = << >> \/ st.raised # None THEN st
    ELSE LET packet == RtpParse(Head(datagrams))
         IN  IF ~packet.ok THEN [st EXCEPT !.raised = "ValueError"]
             ELSE LET r == handle_packet(st.receiver, packet)
                  IN  receive_all([ receiver |-> r.receiver, calls |-> st.calls \o r.on_dtmf,
                                    raised |-> r.raised ],
                                  Tail(datagrams))

Received(datagrams) ==
    receive_all([receiver |-> DtmfReceiver_new, calls |-> << >>, raised |-> None], datagrams)

C39_DigitRoundTrip ==
    (/\ tx_count > 0
     /\ upper(tx_call.digit) \in DOMAIN DTMF_EVENTS
     /\ DurationSamples(tx_call.duration_ms, dtmf_tx.clock_rate) <= 65535) =>
        /\ tx_call.raised = None
        /\ Received(tx_call.packets).raised = None
        /\ Received(tx_call.packets).calls = << << upper(tx_call.digit), DurationSamples(tx_call.duration_ms, dtmf_tx.clock_rate) >> >>

\* A lower-case digit sent with progress packets before the three end
\* packets is received once, in upper case.
C39_Witness ==
    /\ tx_call.digit = "d" /\ tx_call.duration_ms = 160 /\ dtmf_tx.clock_rate = 48000
    /\ Len(tx_call.packets) = 10
    /\ Received(tx_call.packets).calls = << << "D", 7680 >> >>

(***************************************************************************)
(* C40. A DTMF end packet that arrives while on_dtmf is set is reported to *)
(* the callback on_dtmf holds at that moment, whether or not DTMF packets  *)
(* arrived before on_dtmf was assigned and whether or not on_dtmf was      *)
(* reassigned in between.  The end packet is the first packet of its       *)
(* event or follows packets of another event, so that no receiver has      *)
(* reported it yet.                                                        *)
(***************************************************************************)
EndOfNewEvent(datagram) ==
    /\ IsEnd(RtpParse(datagram))
    /\ recv_last.op = None \/ RtpParse(recv_last.data).timestamp # RtpParse(datagram).timestamp

C40_Step ==
    (/\ recv_count' = recv_count + 1
     /\ on_dtmf_slot # << >>
     /\ EndOfNewEvent(recv_last'.data)) =>
        /\ Len(dtmf_to') = Len(dtmf_to) + 1
        /\ dtmf_to'[Len(dtmf_to')].callback = on_dtmf_slot

C40_ReportedToCurrentCallback == [][C40_Step]_vars

====
